---- MODULE Spec2Model ----
(***************************************************************************)
(* USB-HID to BLE-HID bridge (efogdev/adept-wireless-ext).                 *)
(*                                                                         *)
(* The model covers main/hid_bridge.c (bridge life cycle, inactivity       *)
(* timer callback, report path, consumer task), the parts of               *)
(* main/ble/ble_hid_device.c and main/usb/usb_hid_host.c the bridge calls, *)
(* and the FreeRTOS objects they use (one mutex, one one-shot timer, one   *)
(* queue).                                                                 *)
(*                                                                         *)
(* Execution contexts:                                                     *)
(*   pc_t  the timer daemon running inactivity_timer_callback              *)
(*   pc_c  the consumer task hid_bridge_task / hid_bridge_process_report   *)
(*   pc_a  the application context calling hid_bridge_init/start/stop/     *)
(*         deinit                                                          *)
(* Straight-line code between two blocking calls is one step; the blocking *)
(* calls (xSemaphoreTake, ble_hid_device_init, ble_hid_device_deinit,      *)
(* xQueueReceive) begin or end a step.                                     *)
(***************************************************************************)
EXTENDS Integers, Sequences, FiniteSets, TLC

(* ---- bounds ---------------------------------------------------------- *)
\* inactivity period in model ticks (s_inactivity_timeout_ms is a setting)
Timeout == 2
\* number of input reports the USB side produces in one run
MaxReports == 2

(* ---- program constants ----------------------------------------------- *)
HID_QUEUE_SIZE == 4

\* values of report_map->num_fields a parsed descriptor yields in the model
NumFieldsSet == {1, 2}
\* report->is_mouse / report->is_keyboard as hid_bridge_process_report finds
\* them: process_report does not write them, so they are an input of the
\* dispatch
Kinds == {"mouse", "keyboard", "none"}

NoReport == [id |-> 0, num_fields |-> 0]

VARIABLES
    \* hid_bridge.c statics
    s_hid_bridge_initialized, s_hid_bridge_running, s_ble_stack_active,
    s_enable_sleep, s_inactivity_timer, s_ble_stack_mutex, s_hid_report_queue,
    \* ble_hid_device.c, usb_hid_host.c, wifi_manager.c statics
    s_connected, g_device_connected, is_connected, map_num_fields,
    \* FreeRTOS objects and collaborators
    mutex_holder, timer_active, timer_left, ble_stack, usb_host_up,
    \* control state of the three contexts; report is hid_bridge_task's local
    pc_t, pc_c, pc_a, report,
    \* history of the run, read by the properties only:
    \*   produced      reports the USB side has produced
    \*   rep           how far hid_bridge_process_report has got with the
    \*                 report in the consumer, and after its return whether
    \*                 the report was sent or given up on an error
    \*   inert         the timer has fired, its callback returned because a
    \*                 condition was false, and no report has re-armed it
    \*   since_report  ticks since a report last reached
    \*                 hid_bridge_process_report (counted up to Timeout)
    produced, rep, inert, since_report,
    \* usb_hid_host.c statics and the event task, in the detail the channel
    \* needs (specification SpecUsb):
    \*   map_total_bits       report_map->total_bits of the interface
    \*   g_report_queue       the report queue as process_report fills it:
    \*                        usb_hid_report_t values, fields being the index
    \*                        of the g_isr_fields / g_isr_field_values slot
    \*   g_isr_buffer_index   the slot the next report is decoded into
    \*   g_isr_field_values   per slot, the id of the report whose decoded
    \*                        fields the slot holds (0: none yet)
    \*   usb_report           g_isr_reports[slot] of the call in progress
    \*   parse_pc, prod_pc    position of hid_host_event_task inside
    \*                        parse_report_descriptor / process_report
    \*   send_left            ticks left of the xQueueSend wait
    \*   cons_pc, cons_report hid_bridge_task and its local report
    \*   n_reports, dropped, dequeued   history: calls of process_report,
    \*                        ids of the reports xQueueSend gave up on,
    \*                        number of reports the consumer received
    map_total_bits, g_report_queue, g_isr_buffer_index, g_isr_field_values,
    usb_report, parse_pc, prod_pc, send_left, cons_pc, cons_report,
    n_reports, dropped, dequeued,
    \* descriptor_parser.c (specifications SpecParse and SpecReparse):
    \*   parser       the locals of parse_report_descriptor, the descriptor
    \*                and the index i into it, the caller's report_map, and
    \*                as history per report id the bits the Input/Output
    \*                items seen so far declare (declared), the report
    \*                ids those items were met under (input_ids) and
    \*                whether a Report ID item was met (has_report_id), the
    \*                usages declared since the last Main item
    \*                (local_usages)
    \*   parse_phase  where the caller is: before the call, inside the loop,
    \*                after the return, after later calls on the same map
    \*   first_desc   the descriptor of the first call
    \*   first_map    history: the map as the first call left it
    parser, parse_phase, first_desc, first_map,
    \* extract_field_value on its own (specification SpecExtract): the
    \* arguments of one call (data, bit_offset, bit_size), as history the
    \* signed value whose bit pattern was written into data (written; raw
    \* when data is a given payload instead), and the value returned
    extract,
    \* process_keyboard_report on its own (specification SpecTranslate):
    \* the decoded fields of the report (usage_page, usage, value), the
    \* field count the report map holds, whether a BLE peer is connected,
    \* and after the call its return value and the 8-byte buffer handed to
    \* esp_hidd_send_keyboard_value, if any
    translate,
    \* process_interface_event and process_report in the detail of the
    \* bytes (specification SpecDecode):
    \*   cur_if_evt_data   the static receive buffer
    \*   decode_map        the report map of the interface: report_id (not
    \*                     0 when the descriptor has Report ID items) and
    \*                     the fields' bit_offset and bit_size
    \*   decode_report     the report process_report built last: report_id,
    \*                     the field values, and as history the payload
    \*                     received, its length and the indexes of the
    \*                     buffer bytes the extraction read
    \*   decode_first      history: the first report built with this map
    cur_if_evt_data, decode_map, decode_report, decode_first,
    \* the public functions of hid_bridge.c called one after the other
    \* (specification SpecCalls):
    \*   s_hid_bridge_task_handle   the handle is not NULL
    \*   task_count   history: consumer tasks created and not deleted
    \*   api          history: the function called last, what it returned and
    \*                the two flags it found
    s_hid_bridge_task_handle, task_count, api

prog == <<s_hid_bridge_initialized, s_hid_bridge_running, s_ble_stack_active,
          s_enable_sleep, s_inactivity_timer, s_ble_stack_mutex,
          s_hid_report_queue>>
env == <<s_connected, g_device_connected, is_connected, map_num_fields>>
rtos == <<mutex_holder, timer_active, timer_left, ble_stack, usb_host_up>>
ctl == <<pc_t, pc_c, pc_a, report>>
hist == <<produced, rep, inert, since_report>>
usbv == <<map_total_bits, g_report_queue, g_isr_buffer_index,
          g_isr_field_values, usb_report, parse_pc, prod_pc, send_left,
          cons_pc, cons_report, n_reports, dropped, dequeued>>
\* what the actions of the bridge life cycle leave alone
prsv == <<parser, parse_phase, first_desc, first_map>>
decv == <<cur_if_evt_data, decode_map, decode_report, decode_first>>
callv == <<s_hid_bridge_task_handle, task_count, api>>
fnv == <<extract, translate, decv, callv>>
others == <<usbv, prsv, fnv>>
vars == <<prog, env, rtos, ctl, hist, others>>

(* ---- initial state: static initialisers, before hid_bridge_init ------- *)
NoUsbReport == [id |-> 0, num_fields |-> 0, fields |-> 0]

\* usb_hid_host.c lines 39-42 and 62: zero-initialised statics
UsbInit ==
    /\ map_total_bits = 0
    /\ g_report_queue = <<>>
    /\ g_isr_buffer_index = 0
    /\ g_isr_field_values = [slot \in {0, 1} |-> 0]
    /\ usb_report = NoUsbReport
    /\ parse_pc = "idle"
    /\ prod_pc = "idle"
    /\ send_left = 0
    /\ cons_pc = "recv"
    /\ cons_report = NoUsbReport
    /\ n_reports = 0
    /\ dropped = <<>>
    /\ dequeued = 0

\* no call of parse_report_descriptor yet
NoParse == [desc |-> <<>>, i |-> 0]
ParseIdle ==
    /\ parser = NoParse
    /\ parse_phase = "idle"
    /\ first_desc = <<>>
    /\ first_map = <<>>

\* no call of the extractor yet
NoExtract == [pc |-> "idle"]
NoTranslate == [pc |-> "idle"]
\* usb_hid_host.c line 632: the receive buffer, zeroed
EVT_DATA_SIZE == 64
NoDecodeMap == [report_id |-> 0, fields |-> <<>>]
NoDecodeReport ==
    [built |-> FALSE, report_id |-> 0, values |-> <<>>, payload |-> <<>>,
     data_length |-> 0, reads |-> {}]
DecodeInit ==
    /\ cur_if_evt_data = [k \in 1..EVT_DATA_SIZE |-> 0]
    /\ decode_map = NoDecodeMap
    /\ decode_report = NoDecodeReport
    /\ decode_first = NoDecodeReport
NoCall ==
    [fn |-> "none", ret |-> "none", initialized |-> FALSE, running |-> FALSE]
CallIdle ==
    /\ s_hid_bridge_task_handle = FALSE
    /\ task_count = 0
    /\ api = NoCall
FnIdle ==
    /\ extract = NoExtract
    /\ translate = NoTranslate
    /\ DecodeInit
    /\ CallIdle

Init ==
    /\ s_hid_bridge_initialized = FALSE
    /\ s_hid_bridge_running = FALSE
    /\ s_ble_stack_active = TRUE
    /\ s_enable_sleep = TRUE
    /\ s_inactivity_timer = FALSE
    /\ s_ble_stack_mutex = FALSE
    /\ s_hid_report_queue = <<>>
    /\ s_connected = FALSE
    /\ g_device_connected = FALSE
    /\ is_connected = FALSE
    /\ map_num_fields = 0
    /\ mutex_holder = "none"
    /\ timer_active = FALSE
    /\ timer_left = 0
    /\ ble_stack = "down"
    /\ usb_host_up = FALSE
    /\ pc_t = "idle"
    /\ pc_c = "none"
    /\ pc_a = "idle"
    /\ report = NoReport
    /\ produced = 0
    /\ rep = "none"
    /\ inert = FALSE
    /\ since_report = Timeout
    /\ UsbInit
    /\ ParseIdle
    /\ FnIdle

(* ---- FreeRTOS helpers ------------------------------------------------- *)
\* xTimerStart / xTimerReset: (re)start the one-shot period from now
TimerArmed == timer_active' = TRUE /\ timer_left' = Timeout
\* xTimerStop + xTimerDelete
TimerGone == timer_active' = FALSE /\ timer_left' = 0

\* vTaskDelete(s_hid_bridge_task_handle): the task stops where it is; a mutex
\* it holds stays owned by the deleted task
MutexAfterTaskDelete ==
    IF mutex_holder = "consumer" THEN "dead" ELSE mutex_holder

\* xSemaphoreTake(s_ble_stack_mutex, pdMS_TO_TICKS(100)) returns pdTRUE only
\* when no context owns the mutex
xSemaphoreTake(holder) == holder = "none"

(* ---- ble_hid_device.c, usb_hid_host.c, wifi_manager.c ------------------ *)
\* ble_hid_device_init / ble_hid_device_deinit: state of the BLE stack after
\* the call returned ok or an error (an error leaves part of the layers up)
ble_hid_device_init(ok) == IF ok THEN "up" ELSE "half_up"
ble_hid_device_deinit(ok) == IF ok THEN "down" ELSE "half_down"

ble_hid_device_connected == s_connected
usb_hid_host_device_connected == g_device_connected
is_wifi_connected == is_connected
\* hid_bridge.c lines 327-330
hid_bridge_is_ble_paused ==
    ~s_ble_stack_active /\ usb_hid_host_device_connected

\* ble_hid_device_send_keyboard_report / ble_hid_device_send_mouse_report:
\* TRUE when the report is handed to esp_hidd_send_*_value
ble_hid_device_send == s_connected

\* usb_hid_host_get_num_fields(report_id, if_id)
usb_hid_host_get_num_fields == map_num_fields

(* ---- hid_bridge_init -------------------------------------------------- *)
\* ESP_ERROR_CHECK(usb_host_install()) aborts when the USB host library is
\* still installed: the chip restarts with the static initialisers
Restart ==
    /\ s_hid_bridge_initialized' = FALSE
    /\ s_hid_bridge_running' = FALSE
    /\ s_ble_stack_active' = TRUE
    /\ s_enable_sleep' = TRUE
    /\ s_inactivity_timer' = FALSE
    /\ s_ble_stack_mutex' = FALSE
    /\ s_hid_report_queue' = <<>>
    /\ s_connected' = FALSE
    /\ g_device_connected' = FALSE
    /\ is_connected' = FALSE
    /\ map_num_fields' = 0
    /\ mutex_holder' = "none"
    /\ timer_active' = FALSE
    /\ timer_left' = 0
    /\ ble_stack' = "down"
    /\ usb_host_up' = FALSE
    /\ pc_t' = "idle"
    /\ pc_c' = "none"
    /\ pc_a' = "idle"
    /\ report' = NoReport
    /\ rep' = "none"
    /\ inert' = FALSE
    /\ since_report' = Timeout
    /\ UNCHANGED produced

hid_bridge_init(sleep_cfg, usb_ok, ble_ok, usb_deinit_ok) ==
    /\ pc_a = "idle"
    /\ ~s_hid_bridge_initialized
    /\ IF usb_host_up
       THEN Restart
       ELSE
            \* settings, mutex, state, queue and timer are set up first
            /\ s_enable_sleep' = CASE sleep_cfg = "on" -> TRUE
                                   [] sleep_cfg = "off" -> FALSE
                                   [] OTHER -> s_enable_sleep
            /\ s_ble_stack_mutex' = TRUE
            /\ mutex_holder' = "none"
            /\ s_ble_stack_active' = TRUE
            /\ s_inactivity_timer' = TRUE
            /\ s_hid_report_queue' = <<>>
            /\ g_device_connected' = FALSE
            /\ IF ~usb_ok
               THEN \* usb_hid_host_init failed: timer and queue deleted
                    /\ TimerGone
                    /\ UNCHANGED <<s_hid_bridge_initialized, ble_stack,
                                   usb_host_up, inert>>
               ELSE IF ~ble_ok
               THEN \* ble_hid_device_init failed: usb_hid_host_deinit (its
                    \* result is ignored), timer and queue deleted
                    /\ TimerGone
                    /\ ble_stack' = ble_hid_device_init(FALSE)
                    /\ usb_host_up' = ~usb_deinit_ok
                    /\ UNCHANGED <<s_hid_bridge_initialized, inert>>
               ELSE /\ s_hid_bridge_initialized' = TRUE
                    /\ ble_stack' = ble_hid_device_init(TRUE)
                    /\ usb_host_up' = TRUE
                    /\ TimerArmed
                    /\ UNCHANGED inert
            /\ UNCHANGED <<s_hid_bridge_running, s_connected, is_connected,
                           map_num_fields, ctl, produced, rep, since_report>>

    /\ UNCHANGED others
(* ---- hid_bridge_start / hid_bridge_stop ------------------------------- *)
\* the calls that return without changing anything (bridge not initialised,
\* already running, task not created) leave the state as it is
hid_bridge_start ==
    /\ pc_a = "idle"
    /\ s_hid_bridge_initialized
    /\ ~s_hid_bridge_running
    /\ s_hid_bridge_running' = TRUE
    /\ pc_c' = "start"
    /\ UNCHANGED <<s_hid_bridge_initialized, s_ble_stack_active,
                   s_enable_sleep, s_inactivity_timer, s_ble_stack_mutex,
                   s_hid_report_queue, env, rtos, pc_t, pc_a, report, hist>>

    /\ UNCHANGED others
hid_bridge_stop ==
    /\ pc_a = "idle"
    /\ s_hid_bridge_initialized
    /\ s_hid_bridge_running
    /\ s_hid_bridge_running' = FALSE
    /\ pc_c' = "none"
    /\ mutex_holder' = MutexAfterTaskDelete
    /\ report' = NoReport
    /\ rep' = "none"
    /\ UNCHANGED <<s_hid_bridge_initialized, s_ble_stack_active,
                   s_enable_sleep, s_inactivity_timer, s_ble_stack_mutex,
                   s_hid_report_queue, env, timer_active, timer_left,
                   ble_stack, usb_host_up, pc_t, pc_a, produced, inert, since_report>>

    /\ UNCHANGED others
(* ---- hid_bridge_deinit ------------------------------------------------- *)
\* lines 171-184: stop the task if running, stop and delete the timer, then
\* wait for the mutex
hid_bridge_deinit_begin ==
    /\ pc_a = "idle"
    /\ s_hid_bridge_initialized
    /\ IF s_hid_bridge_running
       THEN /\ s_hid_bridge_running' = FALSE
            /\ pc_c' = "none"
            /\ mutex_holder' = MutexAfterTaskDelete
            /\ report' = NoReport
            /\ rep' = "none"
       ELSE UNCHANGED <<s_hid_bridge_running, pc_c, mutex_holder, report,
                        rep>>
    /\ IF s_inactivity_timer
       THEN TimerGone /\ s_inactivity_timer' = FALSE /\ inert' = FALSE
       ELSE UNCHANGED <<timer_active, timer_left, s_inactivity_timer, inert>>
    /\ pc_a' = "deinit_take"
    /\ UNCHANGED <<s_hid_bridge_initialized, s_ble_stack_active,
                   s_enable_sleep, s_ble_stack_mutex, s_hid_report_queue,
                   env, ble_stack, usb_host_up, pc_t, produced, since_report>>

    /\ UNCHANGED others
\* line 186: xSemaphoreTake succeeds
hid_bridge_deinit_take ==
    /\ pc_a = "deinit_take"
    /\ xSemaphoreTake(mutex_holder)
    /\ mutex_holder' = "app"
    /\ pc_a' = "deinit_locked"
    /\ UNCHANGED <<prog, env, timer_active, timer_left, ble_stack,
                   usb_host_up, pc_t, pc_c, report, hist>>

    /\ UNCHANGED others
\* lines 186-189: the wait times out, ESP_FAIL
hid_bridge_deinit_take_timeout ==
    /\ pc_a = "deinit_take"
    /\ mutex_holder # "none"
    /\ pc_a' = "idle"
    /\ UNCHANGED <<prog, env, rtos, pc_t, pc_c, report, hist>>

    /\ UNCHANGED others
\* lines 204-222: usb_hid_host_deinit and the release of queue and mutex.
\* usb_res: "ok", "hid_fail" (hid_host_uninstall failed, nothing torn down),
\* "host_fail" (usb_host_uninstall failed after the tear-down; its error is
\* returned)
hid_bridge_deinit_tail(usb_res) ==
    /\ pc_a' = "idle"
    /\ IF usb_res = "hid_fail"
       THEN UNCHANGED <<s_hid_bridge_initialized, s_hid_report_queue,
                        s_ble_stack_mutex, usb_host_up, g_device_connected>>
       ELSE /\ usb_host_up' = FALSE
            /\ g_device_connected' = FALSE
            /\ IF usb_res = "host_fail"
               THEN UNCHANGED <<s_hid_bridge_initialized, s_hid_report_queue,
                                s_ble_stack_mutex>>
               ELSE /\ s_hid_report_queue' = <<>>
                    /\ s_ble_stack_mutex' = FALSE
                    /\ s_hid_bridge_initialized' = FALSE

\* line 191: the state is read under the mutex; line 192 clears it and
\* ble_hid_device_deinit starts, or (stack already stopped) the mutex is
\* given back and the function goes on
hid_bridge_deinit_locked(usb_res) ==
    /\ pc_a = "deinit_locked"
    /\ IF s_ble_stack_active
       THEN /\ s_ble_stack_active' = FALSE
            /\ pc_a' = "in_deinit"
            /\ UNCHANGED <<s_hid_bridge_initialized, s_hid_report_queue,
                           s_ble_stack_mutex, usb_host_up, g_device_connected,
                           mutex_holder>>
       ELSE /\ mutex_holder' = "none"
            /\ hid_bridge_deinit_tail(usb_res)
            /\ UNCHANGED s_ble_stack_active
    /\ UNCHANGED <<s_hid_bridge_running, s_enable_sleep, s_inactivity_timer,
                   s_connected, is_connected, map_num_fields, timer_active,
                   timer_left, ble_stack, pc_t, pc_c, report, hist>>

    /\ UNCHANGED others
\* lines 193-202: ble_hid_device_deinit returns
hid_bridge_deinit_ble(ok, usb_res) ==
    /\ pc_a = "in_deinit"
    /\ ble_stack' = ble_hid_device_deinit(ok)
    /\ mutex_holder' = "none"
    /\ IF ok
       THEN /\ hid_bridge_deinit_tail(usb_res)
            /\ UNCHANGED s_ble_stack_active
       ELSE /\ s_ble_stack_active' = TRUE
            /\ pc_a' = "idle"
            /\ UNCHANGED <<s_hid_bridge_initialized, s_hid_report_queue,
                           s_ble_stack_mutex, usb_host_up, g_device_connected>>
    /\ UNCHANGED <<s_hid_bridge_running, s_enable_sleep, s_inactivity_timer,
                   s_connected, is_connected, map_num_fields, timer_active,
                   timer_left, pc_t, pc_c, report, hist>>

    /\ UNCHANGED others
(* ---- inactivity_timer_callback ----------------------------------------- *)
\* xTimerCreateStatic(..., pdFALSE, ...): the timer does not reload itself
auto_reload_on == TRUE
auto_reload == FALSE

\* the timer expires and the daemon task enters the callback
timer_expires ==
    /\ timer_active
    /\ timer_left = 0
    /\ pc_t = "idle"
    /\ timer_active' = auto_reload
    /\ timer_left' = IF auto_reload THEN Timeout ELSE 0
    /\ pc_t' = "take"
    /\ UNCHANGED <<prog, env, mutex_holder, ble_stack, usb_host_up, pc_c,
                   pc_a, report, hist>>

    /\ UNCHANGED others
\* line 39: the mutex is taken
timer_take ==
    /\ pc_t = "take"
    /\ s_ble_stack_mutex
    /\ xSemaphoreTake(mutex_holder)
    /\ mutex_holder' = "timer"
    /\ pc_t' = "check"
    /\ UNCHANGED <<prog, env, timer_active, timer_left, ble_stack,
                   usb_host_up, pc_c, pc_a, report, hist>>

    /\ UNCHANGED others
\* lines 39-42: the wait times out (or the mutex has been deleted) and the
\* callback returns
timer_take_timeout ==
    /\ pc_t = "take"
    /\ ~(s_ble_stack_mutex /\ mutex_holder = "none")
    /\ pc_t' = "idle"
    /\ UNCHANGED <<prog, env, rtos, pc_c, pc_a, report, hist>>

    /\ UNCHANGED others
\* lines 49-64: the conditions under which the callback stops the stack
suspend_conditions_nowifi ==
    /\ usb_hid_host_device_connected
    /\ ble_hid_device_connected
    /\ s_enable_sleep
suspend_conditions ==
    /\ usb_hid_host_device_connected
    /\ ble_hid_device_connected
    /\ ~is_wifi_connected
    /\ s_enable_sleep

\* lines 44-68: state and conditions are read; either the callback gives the
\* mutex back and returns, or it clears the state and starts
\* ble_hid_device_deinit
timer_check ==
    /\ pc_t = "check"
    /\ IF ~s_ble_stack_active
       THEN /\ mutex_holder' = "none"
            /\ pc_t' = "idle"
            /\ UNCHANGED inert
            /\ UNCHANGED s_ble_stack_active
       ELSE IF ~suspend_conditions
       THEN /\ mutex_holder' = "none"
            /\ pc_t' = "idle"
            /\ inert' = (s_inactivity_timer /\ ~timer_active)
            /\ UNCHANGED s_ble_stack_active
       ELSE /\ s_ble_stack_active' = FALSE
            /\ pc_t' = "in_deinit"
            /\ UNCHANGED <<mutex_holder, inert>>
    /\ UNCHANGED <<s_hid_bridge_initialized, s_hid_bridge_running,
                   s_enable_sleep, s_inactivity_timer, s_ble_stack_mutex,
                   s_hid_report_queue, env, timer_active, timer_left,
                   ble_stack, usb_host_up, pc_c, pc_a, report, produced, rep,
                   since_report>>

    /\ UNCHANGED others
\* lines 69-73: the state after ble_hid_device_deinit returned; it is written
\* only when the call failed
state_after_deinit_norevert(ok, cur) == cur
state_after_deinit(ok, cur) == IF ok THEN cur ELSE TRUE

\* lines 69-80: ble_hid_device_deinit returns; on an error the state is set
\* back; the mutex is given back
timer_deinit(ok) ==
    /\ pc_t = "in_deinit"
    /\ ble_stack' = ble_hid_device_deinit(ok)
    /\ s_ble_stack_active' = state_after_deinit(ok, s_ble_stack_active)
    /\ mutex_holder' = "none"
    /\ pc_t' = "idle"
    /\ UNCHANGED <<s_hid_bridge_initialized, s_hid_bridge_running,
                   s_enable_sleep, s_inactivity_timer, s_ble_stack_mutex,
                   s_hid_report_queue, env, timer_active, timer_left,
                   usb_host_up, pc_c, pc_a, report, hist>>

    /\ UNCHANGED others
(* ---- hid_bridge_task / hid_bridge_process_report ------------------------ *)
\* lines 430-434: the new task starts the inactivity timer
task_start ==
    /\ pc_c = "start"
    /\ pc_c' = "recv"
    /\ IF s_inactivity_timer
       THEN TimerArmed
       ELSE UNCHANGED <<timer_active, timer_left>>
    /\ UNCHANGED <<prog, env, mutex_holder, ble_stack, usb_host_up, pc_t,
                   pc_a, report, hist>>

    /\ UNCHANGED others
\* xQueueReceive copies the item at the front of the queue
xQueueReceive_newest(queue) == queue[Len(queue)]
xQueueReceive(queue) == Head(queue)

\* line 437: xQueueReceive hands over the oldest queued report
task_receive ==
    /\ pc_c = "recv"
    /\ s_hid_report_queue # <<>>
    /\ report' = xQueueReceive(s_hid_report_queue)
    /\ s_hid_report_queue' = Tail(s_hid_report_queue)
    /\ rep' = "none"
    /\ pc_c' = "entry"
    /\ UNCHANGED <<s_hid_bridge_initialized, s_hid_bridge_running,
                   s_ble_stack_active, s_enable_sleep, s_inactivity_timer,
                   s_ble_stack_mutex, env, rtos, pc_t, pc_a, produced, inert, since_report>>

    /\ UNCHANGED others
\* line 384: the condition under which the report restarts the timer
rearm_condition_never == FALSE
rearm_condition ==
    s_inactivity_timer /\ usb_hid_host_device_connected
                       /\ ble_hid_device_connected

\* lines 374-388: initialised check, timer reset, first read of the state
\* (made without the mutex)
process_report_entry ==
    /\ pc_c = "entry"
    /\ IF ~s_hid_bridge_initialized
       THEN /\ pc_c' = "recv"
            /\ report' = NoReport
            /\ UNCHANGED <<timer_active, timer_left, inert, rep, since_report>>
       ELSE /\ since_report' = 0
            /\ IF rearm_condition
               THEN TimerArmed /\ inert' = FALSE
               ELSE UNCHANGED <<timer_active, timer_left, inert>>
            /\ IF ~s_ble_stack_active
               THEN pc_c' = "take" /\ rep' = "resume"
               ELSE pc_c' = "connected" /\ rep' = "active"
            /\ UNCHANGED report
    /\ UNCHANGED <<prog, env, mutex_holder, ble_stack, usb_host_up, pc_t,
                   pc_a, produced>>

    /\ UNCHANGED others
\* line 389: the mutex is taken
process_report_take ==
    /\ pc_c = "take"
    /\ xSemaphoreTake(mutex_holder)
    /\ mutex_holder' = "consumer"
    /\ pc_c' = "locked"
    /\ UNCHANGED <<prog, env, timer_active, timer_left, ble_stack,
                   usb_host_up, pc_t, pc_a, report, hist>>

    /\ UNCHANGED others
\* line 391: return ESP_FAIL, back to xQueueReceive
take_timeout_falls_through == "connected"
take_timeout_return == "recv"

\* lines 389-392: the wait times out
process_report_take_timeout ==
    /\ pc_c = "take"
    /\ mutex_holder # "none"
    /\ pc_c' = take_timeout_return
    /\ rep' = "take_failed"
    /\ report' = IF take_timeout_return = "recv" THEN NoReport ELSE report
    /\ UNCHANGED <<prog, env, rtos, pc_t, pc_a, produced, inert, since_report>>

    /\ UNCHANGED others
\* line 397: the state is set before ble_hid_device_init is called
resume_state_unset == FALSE
resume_state == TRUE

\* lines 394-398 and 407: second read of the state under the mutex; either
\* the state is set and ble_hid_device_init starts, or the mutex is given back
process_report_locked ==
    /\ pc_c = "locked"
    /\ IF ~s_ble_stack_active
       THEN /\ s_ble_stack_active' = resume_state
            /\ rep' = "init"
            /\ pc_c' = "in_init"
            /\ UNCHANGED mutex_holder
       ELSE /\ mutex_holder' = "none"
            /\ pc_c' = "connected"
            /\ UNCHANGED <<s_ble_stack_active, rep>>
    /\ UNCHANGED <<s_hid_bridge_initialized, s_hid_bridge_running,
                   s_enable_sleep, s_inactivity_timer, s_ble_stack_mutex,
                   s_hid_report_queue, env, timer_active, timer_left,
                   ble_stack, usb_host_up, pc_t, pc_a, report, produced, inert, since_report>>

    /\ UNCHANGED others
\* lines 399-400: the state after ble_hid_device_init returned
state_after_init_norevert(ok, cur) == cur
state_after_init(ok, cur) == IF ok THEN cur ELSE FALSE

\* lines 398-407: ble_hid_device_init returns; on an error the state is set
\* back and the error is returned; the mutex is given back
process_report_init(ok) ==
    /\ pc_c = "in_init"
    /\ ble_stack' = ble_hid_device_init(ok)
    /\ s_ble_stack_active' = state_after_init(ok, s_ble_stack_active)
    /\ mutex_holder' = "none"
    /\ IF ok
       THEN /\ rep' = "init_ok"
            /\ pc_c' = "connected"
            /\ UNCHANGED report
       ELSE /\ rep' = "init_failed"
            /\ pc_c' = "recv"
            /\ report' = NoReport
    /\ UNCHANGED <<s_hid_bridge_initialized, s_hid_bridge_running,
                   s_enable_sleep, s_inactivity_timer, s_ble_stack_mutex,
                   s_hid_report_queue, env, timer_active, timer_left,
                   usb_host_up, pc_t, pc_a, produced, inert, since_report>>

    /\ UNCHANGED others
\* lines 410-413: nothing is translated while no BLE peer is connected
process_report_connected ==
    /\ pc_c = "connected"
    /\ IF ~ble_hid_device_connected
       THEN /\ pc_c' = "recv"
            /\ report' = NoReport
            /\ rep' = "none"
       ELSE /\ pc_c' = "translate"
            /\ UNCHANGED <<report, rep>>
    /\ UNCHANGED <<prog, env, rtos, pc_t, pc_a, produced, inert, since_report>>

    /\ UNCHANGED others
\* lines 271-274 and 294-297: a report is translated only when it has the
\* number of fields the report map holds now
field_count_unchecked(expected_fields, num_fields) == TRUE
field_count_accepted(expected_fields, num_fields) ==
    expected_fields = num_fields

\* lines 415-422: what hid_bridge_process_report returns after the
\* translation of a report of the kind, the peer being connected or not
process_report_return(kind, expected_fields, num_fields, connected) ==
    IF kind = "none" THEN "ESP_OK"
    ELSE IF ~field_count_accepted(expected_fields, num_fields) THEN "ESP_OK"
    ELSE IF ~connected THEN "ESP_ERR_INVALID_STATE"
    ELSE "ESP_OK"

\* lines 415-422 with process_mouse_report / process_keyboard_report and
\* ble_hid_device_send_*_report: the report is translated and handed to the
\* BLE stack when a peer is connected
process_report_send(kind) ==
    /\ pc_c = "translate"
    /\ pc_c' = "recv"
    /\ report' = NoReport
    /\ IF kind = "none"
       THEN rep' = "none"
       ELSE IF ~field_count_accepted(usb_hid_host_get_num_fields,
                                     report.num_fields)
       THEN rep' = "none"
       ELSE IF ~ble_hid_device_send
       THEN rep' = "none"
       ELSE rep' = IF rep = "init_ok" THEN "resumed_sent" ELSE "sent"
    /\ UNCHANGED <<prog, env, rtos, pc_t, pc_a, produced, inert, since_report>>

    /\ UNCHANGED others
(* ---- collaborators ------------------------------------------------------ *)
\* hidd_event_callback, ESP_HIDD_EVENT_BLE_CONNECT
ble_connect_event ==
    /\ ble_stack = "up"
    /\ ~s_connected
    /\ s_connected' = TRUE
    /\ UNCHANGED <<prog, g_device_connected, is_connected, map_num_fields,
                   rtos, ctl, hist>>

    /\ UNCHANGED others
\* hidd_event_callback, ESP_HIDD_EVENT_BLE_DISCONNECT
ble_disconnect_event ==
    /\ s_connected
    /\ s_connected' = FALSE
    /\ UNCHANGED <<prog, g_device_connected, is_connected, map_num_fields,
                   rtos, ctl, hist>>

    /\ UNCHANGED others
\* wifi_manager.c: is_connected follows the WiFi events
wifi_event ==
    /\ is_connected' = ~is_connected
    /\ UNCHANGED <<prog, s_connected, g_device_connected, map_num_fields,
                   rtos, ctl, hist>>

    /\ UNCHANGED others
\* process_device_event, HID_HOST_DRIVER_EVENT_CONNECTED: the descriptor is
\* parsed into the report map, then the device counts as connected
usb_connect_event(nf) ==
    /\ usb_host_up
    /\ ~g_device_connected
    /\ g_device_connected' = TRUE
    /\ map_num_fields' = nf
    /\ UNCHANGED <<prog, s_connected, is_connected, rtos, ctl, hist>>

    /\ UNCHANGED others
\* process_interface_event, HID_HOST_INTERFACE_EVENT_DISCONNECTED
usb_disconnect_event ==
    /\ g_device_connected
    /\ g_device_connected' = FALSE
    /\ UNCHANGED <<prog, s_connected, is_connected, map_num_fields, rtos,
                   ctl, hist>>

    /\ UNCHANGED others
\* process_report: the decoded report is queued, or dropped when the queue
\* stays full for the 100 ms wait
process_report ==
    /\ usb_host_up
    /\ g_device_connected
    /\ produced < MaxReports
    /\ produced' = produced + 1
    /\ s_hid_report_queue' =
          IF Len(s_hid_report_queue) < HID_QUEUE_SIZE
          THEN Append(s_hid_report_queue,
                      [id |-> produced + 1,
                       num_fields |-> map_num_fields])
          ELSE s_hid_report_queue
    /\ UNCHANGED <<s_hid_bridge_initialized, s_hid_bridge_running,
                   s_ble_stack_active, s_enable_sleep, s_inactivity_timer,
                   s_ble_stack_mutex, env, rtos, ctl, rep, inert, since_report>>

    /\ UNCHANGED others
\* one tick of the FreeRTOS tick count
tick ==
    /\ (timer_active /\ timer_left > 0) \/ since_report < Timeout
    /\ timer_left' = IF timer_active /\ timer_left > 0
                     THEN timer_left - 1 ELSE timer_left
    /\ since_report' = IF since_report < Timeout
                       THEN since_report + 1 ELSE since_report
    /\ UNCHANGED <<prog, env, mutex_holder, timer_active, ble_stack,
                   usb_host_up, ctl, produced, rep, inert>>

    /\ UNCHANGED others
(* ---- specification ------------------------------------------------------ *)
Next ==
    \/ \E sleep_cfg \in {"on", "off", "fail"}, usb_ok, ble_ok, udk \in BOOLEAN :
          hid_bridge_init(sleep_cfg, usb_ok, ble_ok, udk)
    \/ hid_bridge_start
    \/ hid_bridge_stop
    \/ hid_bridge_deinit_begin
    \/ hid_bridge_deinit_take
    \/ hid_bridge_deinit_take_timeout
    \/ \E usb_res \in {"ok", "hid_fail", "host_fail"} :
          hid_bridge_deinit_locked(usb_res)
    \/ \E ok \in BOOLEAN, usb_res \in {"ok", "hid_fail", "host_fail"} :
          hid_bridge_deinit_ble(ok, usb_res)
    \/ timer_expires
    \/ timer_take
    \/ timer_take_timeout
    \/ timer_check
    \/ \E ok \in BOOLEAN : timer_deinit(ok)
    \/ task_start
    \/ task_receive
    \/ process_report_entry
    \/ process_report_take
    \/ process_report_take_timeout
    \/ process_report_locked
    \/ \E ok \in BOOLEAN : process_report_init(ok)
    \/ process_report_connected
    \/ \E kind \in Kinds : process_report_send(kind)
    \/ ble_connect_event
    \/ ble_disconnect_event
    \/ wifi_event
    \/ \E nf \in NumFieldsSet : usb_connect_event(nf)
    \/ usb_disconnect_event
    \/ process_report
    \/ tick

Spec == Init /\ [][Next]_vars

(* ---- sanity of the model ------------------------------------------------ *)
TypeOK ==
    /\ s_hid_bridge_initialized \in BOOLEAN
    /\ s_hid_bridge_running \in BOOLEAN
    /\ s_ble_stack_active \in BOOLEAN
    /\ s_enable_sleep \in BOOLEAN
    /\ s_inactivity_timer \in BOOLEAN
    /\ s_ble_stack_mutex \in BOOLEAN
    /\ Len(s_hid_report_queue) <= HID_QUEUE_SIZE
    /\ s_connected \in BOOLEAN
    /\ g_device_connected \in BOOLEAN
    /\ is_connected \in BOOLEAN
    /\ map_num_fields \in NumFieldsSet \cup {0}
    /\ mutex_holder \in {"none", "timer", "consumer", "app", "dead"}
    /\ timer_active \in BOOLEAN
    /\ timer_left \in 0..Timeout
    /\ ble_stack \in {"up", "down", "half_up", "half_down"}
    /\ usb_host_up \in BOOLEAN
    /\ pc_t \in {"idle", "take", "check", "in_deinit"}
    /\ pc_c \in {"none", "start", "recv", "entry", "take", "locked",
                 "in_init", "connected", "translate"}
    /\ pc_a \in {"idle", "deinit_take", "deinit_locked", "in_deinit"}
    /\ produced \in 0..MaxReports
    /\ inert \in BOOLEAN
    /\ since_report \in 0..Timeout
    /\ rep \in {"none", "active", "resume", "init", "init_ok", "init_failed",
               "take_failed", "sent", "resumed_sent"}
    /\ (pc_c = "none") = ~s_hid_bridge_running

(* ---- the USB host side and the report channel ----------------------- *)
\* The bridge is initialised and started and stays so; the life cycle
\* variables keep the values of BridgeRunning. hid_host_event_task handles
\* the device and interface events one at a time, hid_bridge_task receives
\* from the queue process_report sends to.

\* process_report calls handled in one run
MaxInputs == 6
\* the 100 ms wait of xQueueSend, in ticks
SendTimeout == 1

\* (num_fields, total_bits) a parsed report descriptor leaves in the map
Layouts == {[num_fields |-> 1, total_bits |-> 8],
            [num_fields |-> 2, total_bits |-> 16]}

\* everything but g_device_connected, the report map and the channel
bridge_rest == <<prog, s_connected, is_connected, rtos, ctl, hist, prsv, fnv>>

\* the state hid_bridge_init and hid_bridge_start leave behind
BridgeRunning ==
    /\ s_hid_bridge_initialized = TRUE
    /\ s_hid_bridge_running = TRUE
    /\ s_ble_stack_active = TRUE
    /\ s_enable_sleep = TRUE
    /\ s_inactivity_timer = TRUE
    /\ s_ble_stack_mutex = TRUE
    /\ s_hid_report_queue = <<>>
    /\ s_connected = FALSE
    /\ g_device_connected = FALSE
    /\ is_connected = FALSE
    /\ map_num_fields = 0
    /\ mutex_holder = "none"
    /\ timer_active = TRUE
    /\ timer_left = Timeout
    /\ ble_stack = "up"
    /\ usb_host_up = TRUE
    /\ pc_t = "idle"
    /\ pc_c = "recv"
    /\ pc_a = "idle"
    /\ report = NoReport
    /\ produced = 0
    /\ rep = "none"
    /\ inert = FALSE
    /\ since_report = Timeout

InitUsb == BridgeRunning /\ UsbInit /\ ParseIdle /\ FnIdle

\* hid_host_event_task, lines 668-686: the next event is received only
\* after the handler of the previous one has returned
hid_host_event_task_concurrent == TRUE
hid_host_event_task_ready == parse_pc = "idle" /\ prod_pc = "idle"

\* process_device_event, HID_HOST_DRIVER_EVENT_CONNECTED: the descriptor is
\* fetched and parse_report_descriptor starts (lines 217-239: the mutex is
\* taken and the map of the interface is reset)
usb_parse_reset ==
    /\ hid_host_event_task_ready
    /\ ~g_device_connected
    /\ parse_pc' = "fill"
    /\ map_num_fields' = 0
    /\ map_total_bits' = 0
    /\ UNCHANGED <<bridge_rest, g_device_connected, g_report_queue,
                   g_isr_buffer_index, g_isr_field_values, usb_report,
                   prod_pc, send_left, cons_pc, cons_report, n_reports,
                   dropped, dequeued>>

\* lines 241-426 and 624-625: the items of the descriptor fill the map, the
\* mutex is given back, the device is started and counts as connected
usb_parse_fill(layout) ==
    /\ parse_pc = "fill"
    /\ parse_pc' = "idle"
    /\ map_num_fields' = layout.num_fields
    /\ map_total_bits' = layout.total_bits
    /\ g_device_connected' = TRUE
    /\ UNCHANGED <<bridge_rest, g_report_queue, g_isr_buffer_index,
                   g_isr_field_values, usb_report, prod_pc, send_left,
                   cons_pc, cons_report, n_reports, dropped, dequeued>>

\* process_interface_event, HID_HOST_INTERFACE_EVENT_DISCONNECTED (lines
\* 649-653)
usb_interface_disconnected ==
    /\ hid_host_event_task_ready
    /\ g_device_connected
    /\ g_device_connected' = FALSE
    /\ UNCHANGED <<bridge_rest, map_num_fields, usbv>>

\* process_report, lines 530-540: an input report event; the slot
\* g_isr_buffer_index names is taken and num_fields is read from the map
usb_process_report_begin ==
    /\ hid_host_event_task_ready
    /\ g_device_connected
    /\ n_reports < MaxInputs
    /\ n_reports' = n_reports + 1
    /\ usb_report' = [id |-> n_reports + 1, num_fields |-> map_num_fields,
                      fields |-> g_isr_buffer_index]
    /\ prod_pc' = "extract"
    /\ UNCHANGED <<bridge_rest, g_device_connected, map_num_fields,
                   map_total_bits, g_report_queue, g_isr_buffer_index,
                   g_isr_field_values, parse_pc, send_left, cons_pc,
                   cons_report, dropped, dequeued>>

\* lines 542-552: the fields of the map are decoded into the slot, the
\* buffer index is flipped and xQueueSend is called
usb_process_report_fields ==
    /\ prod_pc = "extract"
    /\ g_isr_field_values' =
          [g_isr_field_values EXCEPT ![usb_report.fields] = usb_report.id]
    /\ g_isr_buffer_index' = 1 - g_isr_buffer_index
    /\ prod_pc' = "send"
    /\ send_left' = SendTimeout
    /\ UNCHANGED <<bridge_rest, g_device_connected, map_num_fields,
                   map_total_bits, g_report_queue, usb_report, parse_pc,
                   cons_pc, cons_report, n_reports, dropped, dequeued>>

\* xQueueSend finds room: the usb_hid_report_t is copied to the queue's tail
usb_process_report_sent ==
    /\ prod_pc = "send"
    /\ Len(g_report_queue) < HID_QUEUE_SIZE
    /\ g_report_queue' = Append(g_report_queue, usb_report)
    /\ prod_pc' = "idle"
    /\ usb_report' = NoUsbReport
    /\ send_left' = 0
    /\ UNCHANGED <<bridge_rest, g_device_connected, map_num_fields,
                   map_total_bits, g_isr_buffer_index, g_isr_field_values,
                   parse_pc, cons_pc, cons_report, n_reports, dropped,
                   dequeued>>

\* a tick passes while xQueueSend waits on the full queue
usb_send_tick ==
    /\ prod_pc = "send"
    /\ Len(g_report_queue) = HID_QUEUE_SIZE
    /\ send_left > 0
    /\ send_left' = send_left - 1
    /\ UNCHANGED <<bridge_rest, g_device_connected, map_num_fields,
                   map_total_bits, g_report_queue, g_isr_buffer_index,
                   g_isr_field_values, usb_report, parse_pc, prod_pc,
                   cons_pc, cons_report, n_reports, dropped, dequeued>>

\* line 552: pdMS_TO_TICKS(100) bounds the wait of xQueueSend
xQueueSend_waits_forever(left) == FALSE
xQueueSend_timed_out(left) == left = 0

\* the wait ends with the queue still full: xQueueSend fails, its result is
\* not looked at, process_report returns
usb_process_report_dropped ==
    /\ prod_pc = "send"
    /\ Len(g_report_queue) = HID_QUEUE_SIZE
    /\ xQueueSend_timed_out(send_left)
    /\ dropped' = Append(dropped, usb_report.id)
    /\ prod_pc' = "idle"
    /\ usb_report' = NoUsbReport
    /\ UNCHANGED <<bridge_rest, g_device_connected, map_num_fields,
                   map_total_bits, g_report_queue, g_isr_buffer_index,
                   g_isr_field_values, parse_pc, send_left, cons_pc,
                   cons_report, n_reports, dequeued>>

\* hid_bridge_task, line 437: the report at the head of the queue is copied
\* into the task's local and handed to hid_bridge_process_report
usb_task_receive ==
    /\ cons_pc = "recv"
    /\ g_report_queue # <<>>
    /\ cons_report' = xQueueReceive(g_report_queue)
    /\ g_report_queue' = Tail(g_report_queue)
    /\ cons_pc' = "process"
    /\ dequeued' = dequeued + 1
    /\ UNCHANGED <<bridge_rest, g_device_connected, map_num_fields,
                   map_total_bits, g_isr_buffer_index, g_isr_field_values,
                   usb_report, parse_pc, prod_pc, send_left, n_reports,
                   dropped>>

\* line 438: hid_bridge_process_report has read report->fields and returns
usb_task_done ==
    /\ cons_pc = "process"
    /\ cons_pc' = "recv"
    /\ cons_report' = NoUsbReport
    /\ UNCHANGED <<bridge_rest, g_device_connected, map_num_fields,
                   map_total_bits, g_report_queue, g_isr_buffer_index,
                   g_isr_field_values, usb_report, parse_pc, prod_pc,
                   send_left, n_reports, dropped, dequeued>>

NextUsb ==
    \/ usb_parse_reset
    \/ \E layout \in Layouts : usb_parse_fill(layout)
    \/ usb_interface_disconnected
    \/ usb_process_report_begin
    \/ usb_process_report_fields
    \/ usb_process_report_sent
    \/ usb_send_tick
    \/ usb_process_report_dropped
    \/ usb_task_receive
    \/ usb_task_done

SpecUsb == InitUsb /\ [][NextUsb]_vars

\* the event task and the tick interrupt keep running; nothing is assumed
\* of hid_bridge_task
FairUsb ==
    /\ SpecUsb
    /\ WF_vars(usb_process_report_fields)
    /\ WF_vars(usb_process_report_sent)
    /\ WF_vars(usb_send_tick)
    /\ WF_vars(usb_process_report_dropped)

TypeOKUsb ==
    /\ map_total_bits \in {0, 8, 16}
    /\ Len(g_report_queue) <= HID_QUEUE_SIZE
    /\ g_isr_buffer_index \in {0, 1}
    /\ \A slot \in {0, 1} : g_isr_field_values[slot] \in 0..MaxInputs
    /\ parse_pc \in {"idle", "fill"}
    /\ prod_pc \in {"idle", "extract", "send"}
    /\ send_left \in 0..SendTimeout
    /\ cons_pc \in {"recv", "process"}
    /\ n_reports \in 0..MaxInputs
    /\ dequeued \in 0..MaxInputs

(* ---- the descriptor parser (descriptor_parser.c) ---------------------- *)
\* items of one descriptor (specification SpecParse), and of the descriptors
\* parsed one after the other into the same map (specification SpecReparse)
MaxItems == 4
MaxReparseItems == 2
\* items after the prefix of a descriptor of local items, and items before
\* the cut header of a truncated descriptor
MaxLocalItems == 4
MaxTruncatedItems == 2

MAX_REPORT_FIELDS == 48
MAX_COLLECTION_DEPTH == 8
MAX_REPORTS_PER_INTERFACE == 8
\* the longest report process_report accepts, in bytes
MAX_REPORT_LEN == 64

\* short items the descriptors are made of, as their bytes:
\* Report Size 8, Report Count 65, Usage Maximum 1, Usage 0x30, Report ID 1,
\* Input (variable), Input (array), Input (constant)
ItemLibrary ==
    {<<117, 8>>, <<149, 65>>, <<41, 1>>, <<9, 48>>, <<133, 1>>,
     <<129, 2>>, <<129, 0>>, <<129, 1>>}
\* the report ids a descriptor of these items can name
ReportIdSet == 0..MAX_REPORTS_PER_INTERFACE

RECURSIVE DescriptorsUpTo(_)
DescriptorsUpTo(n) ==
    IF n = 0 THEN {<<>>}
    ELSE LET shorter == DescriptorsUpTo(n - 1)
         IN  shorter \cup {d \o item : d \in shorter, item \in ItemLibrary}

\* C conversions of the item data
ToUint8(d) == d % 256
ToUint16(d) == d % 65536
ToInt8(d) == IF d % 256 >= 128 THEN (d % 256) - 256 ELSE d % 256
ToInt16(d) == IF d % 65536 >= 32768 THEN (d % 65536) - 65536 ELSE d % 65536
\* (int)data: at most three data bytes are read, so data is below 2^24
ToInt32(d) == d
Min2(a, b) == IF a < b THEN a ELSE b

\* statically zeroed storage
ZeroField ==
    [usage_page |-> 0, usage |-> 0, usage_maximum |-> 0, report_size |-> 0,
     report_count |-> 0, logical_min |-> 0, logical_max |-> 0,
     constant |-> FALSE, variable |-> FALSE, relative |-> FALSE,
     array |-> FALSE, bit_offset |-> 0, bit_size |-> 0]
\* report_info_t: fields is the storage of the fields array as far as it
\* was ever written, num_fields the number of fields of the current parse
ZeroReport ==
    [fields |-> <<>>, num_fields |-> 0, total_bits |-> 0, usage_stack |-> <<>>]
\* report_map_t: report_ids and reports are the storage of the two arrays
ZeroMap ==
    [num_reports |-> 0, report_ids |-> <<>>, reports |-> <<>>,
     collection_depth |-> 0]

\* lines 31-36 and 79-83: the report_info_t at index n (from 1) starts empty;
\* what its fields array held before stays in memory
FreshReport(map, n) ==
    IF n <= Len(map.reports)
    THEN [map.reports[n] EXCEPT !.num_fields = 0, !.total_bits = 0,
                                !.usage_stack = <<>>]
    ELSE ZeroReport
PutAt(seq, n, x) ==
    IF n <= Len(seq) THEN [seq EXCEPT ![n] = x] ELSE Append(seq, x)

\* lines 14-36: the locals and the start of the map
parse_start(desc, map) ==
    [desc |-> desc, i |-> 0,
     current_usage_page |-> 0, report_size |-> 0, report_count |-> 0,
     logical_min |-> 0, logical_max |-> 0, current_usage |-> 0,
     usage_minimum |-> 0, usage_maximum |-> 0, has_usage_range |-> FALSE,
     current_report_id |-> 0, is_relative |-> FALSE,
     current_report |-> 1,
     report_map |-> [num_reports |-> 1,
                     report_ids |-> PutAt(map.report_ids, 1, 0),
                     reports |-> PutAt(map.reports, 1, FreshReport(map, 1)),
                     collection_depth |-> 0],
     declared |-> [id \in ReportIdSet |-> 0],
     input_ids |-> {}, has_report_id |-> FALSE, local_usages |-> <<>>]

\* a field written without the bit position of the report advancing
WriteField_offset_zero(rinfo, f, sets_maximum) ==
    [rinfo EXCEPT !.fields = PutAt(rinfo.fields, rinfo.num_fields + 1, f),
                  !.num_fields = rinfo.num_fields + 1]

\* one field written at fields[num_fields]; usage_maximum is assigned only
\* for an array with a usage range (line 109), elsewhere the member keeps
\* what the storage held
WriteField(rinfo, f, sets_maximum) ==
    LET k == rinfo.num_fields + 1
        old == IF k <= Len(rinfo.fields)
               THEN rinfo.fields[k].usage_maximum ELSE 0
        g == [f EXCEPT !.usage_maximum =
                 IF sets_maximum THEN f.usage_maximum ELSE old,
                       !.bit_offset = rinfo.total_bits]
    IN  [rinfo EXCEPT !.fields = PutAt(rinfo.fields, k, g),
                      !.num_fields = k,
                      !.total_bits = ToUint16(rinfo.total_bits + f.bit_size)]

RECURSIVE WriteFields(_, _, _)
WriteFields(rinfo, fs, from) ==
    IF from > Len(fs) THEN rinfo
    ELSE WriteFields(WriteField(rinfo, fs[from], FALSE), fs, from + 1)

\* lines 62-85: the report info the item's fields go to; "skip" when a new
\* report id finds the table full (line 75: the item is left)
find_report(p) ==
    LET m == p.report_map
        hits == {j \in 1..m.num_reports :
                    m.report_ids[j] = p.current_report_id}
    IN  IF p.current_report_id = 0
        THEN [skip |-> FALSE, index |-> p.current_report, map |-> m]
        ELSE IF hits # {}
        THEN [skip |-> FALSE,
              index |-> CHOOSE j \in hits : \A h \in hits : j <= h,
              map |-> m]
        ELSE IF m.num_reports >= MAX_REPORTS_PER_INTERFACE
        THEN [skip |-> TRUE, index |-> p.current_report, map |-> m]
        ELSE LET n == m.num_reports + 1
             IN  [skip |-> FALSE, index |-> n,
                  map |-> [m EXCEPT
                      !.report_ids = PutAt(m.report_ids, n,
                                           p.current_report_id),
                      !.reports = PutAt(m.reports, n, FreshReport(m, n)),
                      !.num_reports = n]]

\* the bits of one unit of the item only
whole_size_one_unit(p) == p.report_size
\* lines 101 and 119: the bits of a field that spans the whole item
whole_size(p) == ToUint16(p.report_size * p.report_count)

\* lines 87-169: the fields one Input/Output item emits into rinfo
emit_fields(p, rinfo, data) ==
    LET is_constant == data % 2 = 1
        is_variable == (data \div 2) % 2 = 1
        is_relative == (data \div 4) % 2 = 1
        room == MAX_REPORT_FIELDS - rinfo.num_fields
        whole == whole_size(p)
        base == [ZeroField EXCEPT !.usage_page = p.current_usage_page,
                                  !.report_size = p.report_size]
        range_size == ToUint16(p.usage_maximum - p.usage_minimum + 1)
        pos == Len(rinfo.usage_stack)
    IN  IF is_constant
        THEN WriteField(rinfo,
                 [base EXCEPT !.report_count = p.report_count,
                              !.constant = TRUE, !.bit_size = whole],
                 FALSE)
        ELSE IF ~is_variable /\ p.has_usage_range
        THEN WriteField(rinfo,
                 [base EXCEPT !.usage = p.usage_minimum,
                              !.usage_maximum = p.usage_maximum,
                              !.report_count = p.report_count,
                              !.logical_min = p.logical_min,
                              !.logical_max = p.logical_max,
                              !.relative = is_relative,
                              !.array = TRUE, !.bit_size = whole],
                 TRUE)
        ELSE IF p.has_usage_range /\ is_variable
        THEN WriteFields(rinfo,
                 [j \in 1..Min2(Min2(p.report_count, range_size), room) |->
                    [base EXCEPT !.usage = ToUint16(p.usage_minimum + j - 1),
                                 !.report_count = 1,
                                 !.logical_min = p.logical_min,
                                 !.logical_max = p.logical_max,
                                 !.variable = TRUE,
                                 !.relative = is_relative,
                                 !.bit_size = p.report_size]],
                 1)
        ELSE WriteFields(rinfo,
                 [j \in 1..Min2(p.report_count, room) |->
                    [base EXCEPT !.usage =
                                    IF pos > j - 1 THEN rinfo.usage_stack[j]
                                    ELSE IF pos > 0 THEN rinfo.usage_stack[pos]
                                    ELSE p.current_usage,
                                 !.report_count = 1,
                                 !.logical_min = p.logical_min,
                                 !.logical_max = p.logical_max,
                                 !.variable = is_variable,
                                 !.relative = is_relative,
                                 !.array = ~is_variable,
                                 !.bit_size = p.report_size]],
                 1)

\* a field table that is taken as never full
field_table_unbounded(rinfo) == FALSE
\* line 56: no room in the field table of the report
field_table_full(rinfo) == rinfo.num_fields >= MAX_REPORT_FIELDS

\* lines 54-177: an Input or Output item
main_input(p, data) ==
    LET counted == [p EXCEPT !.declared[p.current_report_id] =
                        @ + p.report_size * p.report_count,
                             !.input_ids = @ \cup {p.current_report_id}]
        cur == p.report_map.reports[p.current_report]
    IN  IF field_table_full(cur) THEN counted
        ELSE LET found == find_report(p)
                 rel == [counted EXCEPT !.is_relative = (data \div 4) % 2 = 1]
             IN  IF found.skip THEN rel
                 ELSE LET rinfo == emit_fields(p, found.map.reports[found.index],
                                               data)
                          done == [rinfo EXCEPT !.usage_stack = <<>>]
                      IN  [rel EXCEPT
                             !.current_report = found.index,
                             !.report_map =
                                 [found.map EXCEPT !.reports[found.index] = done],
                             !.has_usage_range = FALSE,
                             !.usage_minimum = 0,
                             !.usage_maximum = 0]

\* lines 39-49: the data bytes the item at p.i takes (item_size of them, or
\* as many as the descriptor still has) and the value assembled from them
item_length(p) == Min2(p.desc[p.i + 1] % 4, Len(p.desc) - (p.i + 1))
item_data(p) ==
    LET n == item_length(p)
        byte(j) == p.desc[p.i + 1 + j] * (256 ^ (j - 1))
    IN  IF n = 0 THEN 0
        ELSE byte(1) + (IF n >= 2 THEN byte(2) ELSE 0)
                     + (IF n >= 3 THEN byte(3) ELSE 0)

\* lines 38-245: one turn of the loop over the descriptor's bytes
parse_item(p) ==
    LET length == Len(p.desc)
        item == p.desc[p.i + 1]
        item_size == item % 4
        item_type == (item \div 4) % 4
        item_tag == (item \div 16) % 16
        n == item_length(p)
        data == item_data(p)
        q == [p EXCEPT !.i = p.i + 1 + n]
        signed == IF item_size = 1 /\ (data \div 128) % 2 = 1 THEN ToInt8(data)
                  ELSE IF item_size = 2 /\ (data \div 32768) % 2 = 1
                  THEN ToInt16(data)
                  ELSE ToInt32(data)
        cur == q.report_map.reports[q.current_report]
        seen == IF item_type = 0 THEN <<>>
                ELSE IF item_type = 2 /\ item_tag = 0
                THEN Append(p.local_usages, ToUint16(data))
                ELSE p.local_usages
        r ==
        CASE item_type = 0 /\ item_tag \in {8, 9} -> main_input(q, data)
          [] item_type = 0 /\ item_tag = 10 ->
                IF q.report_map.collection_depth < MAX_COLLECTION_DEPTH
                THEN [q EXCEPT !.report_map.collection_depth = @ + 1]
                ELSE q
          [] item_type = 0 /\ item_tag = 12 ->
                IF q.report_map.collection_depth > 0
                THEN [q EXCEPT !.report_map.collection_depth = @ - 1]
                ELSE q
          [] item_type = 1 /\ item_tag = 0 ->
                [q EXCEPT !.current_usage_page = ToUint16(data)]
          [] item_type = 1 /\ item_tag = 1 -> [q EXCEPT !.logical_min = signed]
          [] item_type = 1 /\ item_tag = 2 -> [q EXCEPT !.logical_max = signed]
          [] item_type = 1 /\ item_tag = 7 ->
                [q EXCEPT !.report_size = ToUint8(data)]
          [] item_type = 1 /\ item_tag = 8 ->
                [q EXCEPT !.current_report_id = ToUint8(data),
                          !.has_report_id = TRUE]
          [] item_type = 1 /\ item_tag = 9 ->
                [q EXCEPT !.report_count = ToUint8(data)]
          [] item_type = 2 /\ item_tag = 0 ->
                [q EXCEPT !.current_usage = ToUint16(data),
                          !.report_map.reports[q.current_report].usage_stack =
                              IF Len(cur.usage_stack) < MAX_REPORT_FIELDS
                              THEN Append(cur.usage_stack, ToUint16(data))
                              ELSE cur.usage_stack]
          [] item_type = 2 /\ item_tag = 1 ->
                [q EXCEPT !.usage_minimum = ToUint16(data),
                          !.has_usage_range = TRUE]
          [] item_type = 2 /\ item_tag = 2 ->
                [q EXCEPT !.usage_maximum = ToUint16(data),
                          !.has_usage_range = TRUE]
          [] OTHER -> q
    IN  [r EXCEPT !.local_usages = seen]

RECURSIVE parse_loop(_)
parse_loop(p) == IF p.i < Len(p.desc) THEN parse_loop(parse_item(p)) ELSE p

\* the whole call
parse_report_descriptor(desc, map) == parse_loop(parse_start(desc, map))

\* what a reader of the map sees: per report its id, total_bits and the
\* num_fields fields of the parse
MapView(map) ==
    [j \in 1..map.num_reports |->
        [report_id |-> map.report_ids[j],
         total_bits |-> map.reports[j].total_bits,
         fields |-> SubSeq(map.reports[j].fields, 1,
                           map.reports[j].num_fields)]]

\* everything but the parser
parse_rest == <<prog, env, rtos, ctl, hist, usbv, fnv>>

\* the keyboard descriptor of scenario A (modifier byte and reserved byte):
\* Usage Page (Keyboard), Usage Minimum 0xE0, Usage Maximum 0xE7,
\* Report Size 1, Report Count 8, Input (Data,Var), Report Count 1,
\* Report Size 8, Input (Const); and the same inside its collection with
\* Usage Page (Generic Desktop), Usage (Keyboard), Logical Minimum 0 and
\* Logical Maximum 1
ScenarioA ==
    <<5, 7, 25, 224, 41, 231, 117, 1, 149, 8, 129, 2, 149, 1, 117, 8, 129, 1>>
ScenarioA_collection ==
    <<5, 1, 9, 6, 161, 1, 5, 7, 25, 224, 41, 231, 21, 0, 37, 1, 117, 1,
      149, 8, 129, 2, 149, 1, 117, 8, 129, 1, 192>>
Scenarios == {ScenarioA, ScenarioA_collection}

\* descriptors of local items: after Report Size 8 and Report Count 3, the
\* items Usage 0x30, Usage 0x31, Usage Minimum 4, Usage Maximum 5,
\* Report ID 1, Input (variable), Input (array), Input (constant)
LocalPrefix == <<117, 8, 149, 3>>
LocalItemLibrary ==
    {<<9, 48>>, <<9, 49>>, <<25, 4>>, <<41, 5>>, <<133, 1>>,
     <<129, 2>>, <<129, 0>>, <<129, 1>>}
RECURSIVE LocalItemsUpTo(_)
LocalItemsUpTo(n) ==
    IF n = 0 THEN {<<>>}
    ELSE LET shorter == LocalItemsUpTo(n - 1)
         IN  shorter \cup {d \o item : d \in shorter, item \in LocalItemLibrary}
LocalDescriptors == {LocalPrefix \o d : d \in LocalItemsUpTo(MaxLocalItems)}

\* descriptors that end inside an item: the header of an item of the
\* library without its data byte
TruncatedDescriptors ==
    {d \o <<item[1]>> : d \in DescriptorsUpTo(MaxTruncatedItems),
                         item \in ItemLibrary}

\* items with size-class 3: Logical Minimum -1 and Logical Maximum 65535 in
\* four data bytes, each followed by Report Size 8, Report Count 1,
\* Input (variable)
ScenarioLong_minimum == <<23, 255, 255, 255, 255, 117, 8, 149, 1, 129, 2>>
ScenarioLong_maximum == <<39, 255, 255, 0, 0, 117, 8, 149, 1, 129, 2>>
\* descriptors that fill the tables. Their parts: 49 Usage items;
\* 9 Collection items; Report IDs 1 to 8 with an Input item each
ManyUsages ==
    [k \in 1..(2 * (MAX_REPORT_FIELDS + 1)) |-> IF k % 2 = 1 THEN 9 ELSE 48]
ManyCollections ==
    [k \in 1..(2 * (MAX_COLLECTION_DEPTH + 1)) |-> IF k % 2 = 1 THEN 161 ELSE 1]
ManyReports ==
    [k \in 1..(4 * MAX_REPORTS_PER_INTERFACE) |->
        CASE k % 4 = 1 -> 133
          [] k % 4 = 2 -> (k + 2) \div 4
          [] k % 4 = 3 -> 129
          [] OTHER -> 2]
\* 9 Collection and 10 End Collection items
ScenarioCollections ==
    ManyCollections \o [k \in 1..(MAX_COLLECTION_DEPTH + 2) |-> 192]
\* the reports, then Usage Minimum 4, Usage Maximum 5 and an Input item
\* under Report ID 8, and an Input item under Report ID 1
ScenarioReports ==
    <<117, 8, 149, 1>> \o ManyReports
        \o <<133, MAX_REPORTS_PER_INTERFACE, 25, 4, 41, 5, 129, 2, 133, 1, 129, 2>>
\* the collections, the reports, then under Report ID 7 an Input item of
\* Report Count 65, and the usages
ScenarioFull ==
    ManyCollections \o ManyReports \o <<133, 7, 149, 65, 129, 2>>
        \o ManyUsages
\* two reports with their usages: Report ID 1, Usage 0x30, Input; Report
\* ID 2, Usage 0x31, Input; Report ID 1, Usage 0x32, Input
ScenarioTwoReports ==
    <<117, 8, 149, 1, 133, 1, 9, 48, 129, 2, 133, 2, 9, 49, 129, 2,
      133, 1, 9, 50, 129, 2>>
\* a collection with its usage: Usage 2, Collection, Usage 0x30, Usage 0x31,
\* Report Size 8, Report Count 2, Input (variable), End Collection
ScenarioCollectionUsage ==
    <<9, 2, 161, 1, 9, 48, 9, 49, 117, 8, 149, 2, 129, 2, 192>>
TableScenarios ==
    {ScenarioLong_minimum, ScenarioLong_maximum, ScenarioFull,
     ScenarioCollections, ScenarioReports, ScenarioTwoReports,
     ScenarioCollectionUsage}

Descriptors ==
    DescriptorsUpTo(MaxItems) \cup Scenarios \cup LocalDescriptors
        \cup TruncatedDescriptors \cup TableScenarios
ReparseDescriptors == DescriptorsUpTo(MaxReparseItems)

\* a caller with a statically zeroed map about to parse a descriptor
InitParse ==
    /\ BridgeRunning
    /\ UsbInit
    /\ parser = NoParse
    /\ parse_phase = "call"
    /\ first_desc \in Descriptors
    /\ first_map = <<>>
    /\ FnIdle

InitReparse ==
    /\ BridgeRunning
    /\ UsbInit
    /\ parser = NoParse
    /\ parse_phase = "call"
    /\ first_desc \in ReparseDescriptors
    /\ first_map = <<>>
    /\ FnIdle

\* lines 13-36
parse_call ==
    /\ parse_phase = "call"
    /\ parser' = parse_start(first_desc, ZeroMap)
    /\ parse_phase' = "loop"
    /\ UNCHANGED <<first_desc, first_map, parse_rest>>

\* lines 38-245, one item
parse_step ==
    /\ parse_phase = "loop"
    /\ parser.i < Len(parser.desc)
    /\ parser' = parse_item(parser)
    /\ UNCHANGED <<parse_phase, first_desc, first_map, parse_rest>>

\* lines 246-251: the loop is over, the call returns
parse_return ==
    /\ parse_phase = "loop"
    /\ parser.i >= Len(parser.desc)
    /\ first_map' = MapView(parser.report_map)
    /\ parse_phase' = "parsed"
    /\ UNCHANGED <<parser, first_desc, parse_rest>>

\* a call with another descriptor and the same map
parse_other(desc) ==
    /\ parse_phase = "parsed"
    /\ parser' = parse_report_descriptor(desc, parser.report_map)
    /\ parse_phase' = "other"
    /\ UNCHANGED <<first_desc, first_map, parse_rest>>

\* a further call with the first descriptor and the same map
parse_again ==
    /\ parse_phase \in {"parsed", "other"}
    /\ parser' = parse_report_descriptor(first_desc, parser.report_map)
    /\ parse_phase' = IF parse_phase = "parsed" THEN "twice" ELSE "again"
    /\ UNCHANGED <<first_desc, first_map, parse_rest>>

NextParse ==
    \/ parse_call
    \/ parse_step
    \/ parse_return

NextReparse ==
    \/ parse_call
    \/ parse_step
    \/ parse_return
    \/ \E desc \in ReparseDescriptors : parse_other(desc)
    \/ parse_again

SpecParse == InitParse /\ [][NextParse]_vars
SpecReparse == InitReparse /\ [][NextReparse]_vars

(* ---- extract_field_value ------------------------------------------------ *)
\* An int is kept as the set of the positions of its one bits (0..31), so
\* that | is the union and the 32-bit pattern is exact.
IntBits == 0..31

\* bit n of the byte b
ByteBit(b, n) == (b \div (2 ^ n)) % 2
\* the bits of the non-negative int x
BitsOf(x) == {n \in 0..30 : (x \div (2 ^ n)) % 2 = 1}
\* x << shift, as an int
ShiftLeft(bits, shift) == {n + shift : n \in bits} \cap IntBits

RECURSIVE SumOfBits(_, _)
SumOfBits(bits, n) ==
    IF n < 0 THEN 0
    ELSE (IF n \in bits THEN 2 ^ n ELSE 0) + SumOfBits(bits, n - 1)
\* the signed value of a 32-bit pattern
IntValue(bits) ==
    IF 31 \in bits THEN (SumOfBits(bits, 30) - 2 ^ 30) - 2 ^ 30
    ELSE SumOfBits(bits, 30)

\* lines 476-478
extract_rejects(bit_size) == bit_size = 0 \/ bit_size > 32

\* lines 491-508: the loop over the bytes; yields the accumulated value and
\* the byte indexes read
RECURSIVE extract_loop(_, _, _, _, _, _, _)
extract_loop(data, byte_offset, bit_shift, bits_remaining, bit_size, value, reads) ==
    IF bits_remaining = 0 THEN [value |-> value, reads |-> reads]
    ELSE LET current_byte == data[byte_offset + 1]
             bits_to_read == Min2(8 - bit_shift, bits_remaining)
             mask == (2 ^ bits_to_read) - 1
             byte_value == (current_byte \div (2 ^ bit_shift)) % (mask + 1)
             shift_amount == ToUint8(bit_size - bits_remaining)
         IN  extract_loop(data, byte_offset + 1, 0,
                          bits_remaining - bits_to_read, bit_size,
                          value \cup ShiftLeft(BitsOf(byte_value), shift_amount),
                          reads \cup {byte_offset})

\* lines 510-513
sign_extend(value, bit_size) ==
    IF bit_size < 32 /\ (bit_size - 1) \in value
    THEN value \cup (bit_size..31)
    ELSE value

\* lines 484-489: the single bit is returned as it is read
single_bit(b, bit_shift) == ByteBit(b, bit_shift)

\* extract_field_value, lines 474-514 (descriptor_parser.c 253-292 is the
\* same function); data holds the bytes from the pointer on
extract_field(data, bit_offset, bit_size) ==
    LET byte_offset == bit_offset \div 8
        bit_shift == bit_offset % 8
    IN  IF extract_rejects(bit_size)
        THEN [value |-> 0, reads |-> {}]
        ELSE IF bit_size = 1
        THEN [value |-> single_bit(data[byte_offset + 1], bit_shift),
              reads |-> {byte_offset}]
        ELSE LET got == extract_loop(data, byte_offset, bit_shift, bit_size,
                                     bit_size, {}, {})
             IN  [value |-> IntValue(sign_extend(got.value, bit_size)),
                  reads |-> got.reads]
extract_field_value(data, bit_offset, bit_size) ==
    extract_field(data, bit_offset, bit_size).value

\* the calls of specification SpecExtract
MaxBitOffset == 9
BitSizes == {1, 2, 8, 16, 32}
MinSigned(bit_size) ==
    IF bit_size = 32 THEN (-(2 ^ 30)) - 2 ^ 30 ELSE -(2 ^ (bit_size - 1))
MaxSigned(bit_size) ==
    IF bit_size = 32 THEN (2 ^ 30 - 1) + 2 ^ 30 ELSE 2 ^ (bit_size - 1) - 1
\* the signed values written: the ends of the range, around zero, and one
\* with mixed bits
SignedValues(bit_size) ==
    {v \in {MinSigned(bit_size), MinSigned(bit_size) + 1, -91, -2, -1, 0, 1,
            2, 77, MaxSigned(bit_size) - 1, MaxSigned(bit_size)} :
        MinSigned(bit_size) <= v /\ v <= MaxSigned(bit_size)}
\* bit n of the two's complement pattern of v
PatternBit(v, n) ==
    IF v >= 0 THEN (IF n = 31 THEN 0 ELSE (v \div (2 ^ n)) % 2)
    ELSE (IF n = 31 THEN 1 ELSE 1 - (((-(v + 1)) \div (2 ^ n)) % 2))
\* a payload whose bits bit_offset .. bit_offset + bit_size - 1 hold the
\* pattern of v, least significant bit first, every other bit being fill
PayloadWith(v, bit_offset, bit_size, fill) ==
    LET last == bit_offset + bit_size - 1
        bit(n) == IF n >= bit_offset /\ n <= last
                  THEN PatternBit(v, n - bit_offset) ELSE fill
    IN  [k \in 1..((last \div 8) + 1) |->
            bit(8 * (k - 1)) + 2 * bit(8 * (k - 1) + 1)
            + 4 * bit(8 * (k - 1) + 2) + 8 * bit(8 * (k - 1) + 3)
            + 16 * bit(8 * (k - 1) + 4) + 32 * bit(8 * (k - 1) + 5)
            + 64 * bit(8 * (k - 1) + 6) + 128 * bit(8 * (k - 1) + 7)]
\* scenario B: the payload byte 0x05 read as eight one-bit fields
ScenarioB == <<5>>

ExtractCalls ==
    UNION {{[pc |-> "call", data |-> PayloadWith(v, off, size, fill),
             bit_offset |-> off, bit_size |-> size, raw |-> FALSE,
             written |-> v, value |-> 0] :
               v \in SignedValues(size), off \in 0..MaxBitOffset,
               fill \in {0, 1}} :
           size \in BitSizes}
\* the fields of scenario B, and the widths the function rejects
RawCalls ==
    {[pc |-> "call", data |-> ScenarioB, bit_offset |-> off,
      bit_size |-> size, raw |-> TRUE, written |-> 0, value |-> 0] :
        off \in 0..7, size \in {0, 1, 33}}

extract_rest ==
    <<prog, env, rtos, ctl, hist, usbv, prsv, translate, decv, callv>>

InitExtract ==
    /\ BridgeRunning
    /\ UsbInit
    /\ ParseIdle
    /\ extract \in ExtractCalls \cup RawCalls
    /\ translate = NoTranslate
    /\ DecodeInit
    /\ CallIdle

extract_call ==
    /\ extract.pc = "call"
    /\ extract' = [extract EXCEPT
           !.pc = "returned",
           !.value = extract_field_value(extract.data, extract.bit_offset,
                                         extract.bit_size)]
    /\ UNCHANGED extract_rest

SpecExtract == InitExtract /\ [][extract_call]_vars

(* ---- process_keyboard_report --------------------------------------------- *)
HID_USAGE_KEYPAD == 7
\* bits of unsigned long on the 32-bit target
ULONG_BITS == 32

\* the usages of the fields of the keyboard reports translated: two
\* modifiers, seven letters (a..g), Enter
KeyboardUsages == <<224, 231, 4, 5, 6, 7, 8, 9, 10, 40>>
\* the decoded reports: every field of KeyboardUsages released (0) or
\* pressed (1), and one field of another usage page
KeyboardReports ==
    {[i \in 1..(Len(KeyboardUsages) + 1) |->
        IF i <= Len(KeyboardUsages)
        THEN [usage_page |-> HID_USAGE_KEYPAD, usage |-> KeyboardUsages[i],
              value |-> IF i \in pressed THEN 1 ELSE 0]
        ELSE [usage_page |-> 1, usage |-> 48,
              value |-> IF i \in pressed THEN 1 ELSE 0]] :
       pressed \in SUBSET (1..(Len(KeyboardUsages) + 1))}

\* line 283: the modifier bits of the fields from index i on
RECURSIVE modifier_bits(_, _)
modifier_bits(fields, i) ==
    IF i > Len(fields) THEN {}
    ELSE LET f == fields[i]
         IN  (IF f.usage_page = HID_USAGE_KEYPAD /\ f.usage >= 224
                 /\ f.usage <= 231 /\ f.value # 0
              THEN {f.usage - 224} ELSE {})
             \cup modifier_bits(fields, i + 1)

\* lines 284-286: the fields that reach keycodes |= (1UL << usage)
key_fields(fields) ==
    {i \in 1..Len(fields) :
        /\ fields[i].usage_page = HID_USAGE_KEYPAD
        /\ ~(fields[i].usage >= 224 /\ fields[i].usage <= 231
             /\ fields[i].value # 0)
        /\ fields[i].usage <= 164
        /\ fields[i].value # 0}
\* 1UL << usage: one bit below the width of unsigned long; from the width
\* on the shift is undefined, and yields either no bit or the bit of the
\* count taken modulo the width
shifted_one(usage, wraps) ==
    IF usage < ULONG_BITS THEN {usage}
    ELSE IF wraps THEN {usage % ULONG_BITS} ELSE {}
keycodes_bits(fields, wraps) ==
    UNION {shifted_one(fields[i].usage, wraps) : i \in key_fields(fields)}

\* the byte made of the bits 8 * k .. 8 * k + 7
byte_of_bits(bits, k) == SumOfBits({b - 8 * k : b \in bits \cap ((8 * k)..(8 * k + 7))}, 7)

\* report->keycode as ble_hid_device_send_keyboard_report copies it
\* (ble_hid_device.c:233); keyboard_report_t is declared in a header that
\* is not part of the sources, so that the member is either storage of its
\* own, which process_keyboard_report leaves zero, or the bytes of keycodes
KeycodeLayouts == {"own", "shared"}
keycode_bytes(layout, bits) ==
    [k \in 1..6 |-> IF layout = "shared" THEN byte_of_bits(bits, k - 1) ELSE 0]

\* lines 270-291 and ble_hid_device.c 225-238
process_keyboard_report(call, layout, wraps) ==
    IF ~field_count_accepted(call.expected_fields, Len(call.fields))
    THEN [call EXCEPT !.pc = "returned", !.ret = "ESP_OK"]
    ELSE IF ~call.connected
    THEN [call EXCEPT !.pc = "returned", !.ret = "ESP_ERR_INVALID_STATE"]
    ELSE [call EXCEPT
            !.pc = "returned", !.ret = "ESP_OK", !.sent = TRUE,
            !.buffer = [modifier |-> SumOfBits(modifier_bits(call.fields, 1), 7),
                        reserved |-> 0,
                        keycode |-> keycode_bytes(layout,
                                        keycodes_bits(call.fields, wraps))]]

NoBuffer == [modifier |-> 0, reserved |-> 0, keycode |-> [k \in 1..6 |-> 0]]
TranslateCalls ==
    {[pc |-> "call", fields |-> fields, expected_fields |-> expected,
      connected |-> connected, ret |-> "none", sent |-> FALSE,
      buffer |-> NoBuffer] :
        fields \in KeyboardReports,
        expected \in {Len(KeyboardUsages), Len(KeyboardUsages) + 1},
        connected \in BOOLEAN}

translate_rest ==
    <<prog, env, rtos, ctl, hist, usbv, prsv, extract, decv, callv>>

InitTranslate ==
    /\ BridgeRunning
    /\ UsbInit
    /\ ParseIdle
    /\ extract = NoExtract
    /\ translate \in TranslateCalls
    /\ DecodeInit
    /\ CallIdle

translate_call ==
    /\ translate.pc = "call"
    /\ \E layout \in KeycodeLayouts, wraps \in BOOLEAN :
           translate' = process_keyboard_report(translate, layout, wraps)
    /\ UNCHANGED translate_rest

SpecTranslate == InitTranslate /\ [][translate_call]_vars

(* ---- process_mouse_report (hid_bridge.c) ------------------------------- *)
HID_USAGE_PAGE_GENERIC_DESKTOP == 1
HID_USAGE_PAGE_BUTTONS == 9
HID_USAGE_X == 48
HID_USAGE_Y == 49
HID_USAGE_WHEEL == 56
\* the widths of the mouse report the BLE side advertises
\* (hid_device_le_prf.c, hidReportMap): X and Y 16 bits, the wheel 8 bits,
\* the button byte
MOUSE_XY_BITS == 16
MOUSE_WHEEL_BITS == 8
MOUSE_BUTTON_BITS == 8

\* the conversion of an int to a signed member of the given width
narrow(value, bits) ==
    LET m == value % (2 ^ bits)
    IN  IF m >= 2 ^ (bits - 1) THEN m - 2 ^ bits ELSE m
\* decoded mouse reports: X, Y and Wheel fields that are there or not, and
\* button fields of the usages 1, 2, 5, 8 and 9
ButtonUsages == <<1, 2, 5, 8, 9>>
OptionalField(usage, values) ==
    {<<>>} \cup {<<[usage_page |-> HID_USAGE_PAGE_GENERIC_DESKTOP,
                    usage |-> usage, value |-> v]>> : v \in values}
ButtonFields ==
    {[k \in 1..Len(ButtonUsages) |->
         [usage_page |-> HID_USAGE_PAGE_BUTTONS, usage |-> ButtonUsages[k],
          value |-> pressed[k]]] :
        pressed \in [1..Len(ButtonUsages) -> {0, 1}]}
MouseReports ==
    {fx \o fy \o fw \o fb :
        fx \in OptionalField(HID_USAGE_X, {5, -3, 40000}),
        fy \in OptionalField(HID_USAGE_Y, {7, -40000}),
        fw \in OptionalField(HID_USAGE_WHEEL, {1, 200}),
        fb \in ButtonFields}

ZeroMouseReport == [buttons |-> {}, x |-> 0, y |-> 0, wheel |-> 0]

\* lines 300-322: the loop over the fields; buttons is the set of the bits
\* that are set
RECURSIVE mouse_fields(_, _, _)
mouse_fields(fields, i, out) ==
    IF i > Len(fields) THEN out
    ELSE LET f == fields[i]
             next ==
                 IF f.usage_page = HID_USAGE_PAGE_GENERIC_DESKTOP
                 THEN CASE f.usage = HID_USAGE_X ->
                               [out EXCEPT !.x = narrow(f.value, MOUSE_XY_BITS)]
                        [] f.usage = HID_USAGE_Y ->
                               [out EXCEPT !.y = narrow(f.value, MOUSE_XY_BITS)]
                        [] f.usage = HID_USAGE_WHEEL ->
                               [out EXCEPT !.wheel =
                                   narrow(f.value, MOUSE_WHEEL_BITS)]
                        [] OTHER -> out
                 ELSE IF /\ f.usage_page = HID_USAGE_PAGE_BUTTONS
                         /\ f.usage >= 1 /\ f.usage <= MOUSE_BUTTON_BITS
                         /\ f.value # 0
                 THEN [out EXCEPT !.buttons = @ \cup {f.usage - 1}]
                 ELSE out
         IN  mouse_fields(fields, i + 1, next)

\* lines 293-324 and ble_hid_device.c 240-248
process_mouse_report(call) ==
    IF ~field_count_accepted(call.expected_fields, Len(call.fields))
    THEN [call EXCEPT !.pc = "returned", !.ret = "ESP_OK"]
    ELSE IF ~call.connected
    THEN [call EXCEPT !.pc = "returned", !.ret = "ESP_ERR_INVALID_STATE"]
    ELSE [call EXCEPT !.pc = "returned", !.ret = "ESP_OK", !.sent = TRUE,
                      !.mouse = mouse_fields(call.fields, 1, ZeroMouseReport)]

MouseCalls ==
    {[pc |-> "call", fields |-> fields,
      expected_fields |-> Len(fields) + extra,
      connected |-> connected, ret |-> "none", sent |-> FALSE,
      mouse |-> ZeroMouseReport] :
        fields \in MouseReports, extra \in {0, 1}, connected \in BOOLEAN}

InitMouse ==
    /\ BridgeRunning
    /\ UsbInit
    /\ ParseIdle
    /\ extract = NoExtract
    /\ translate \in MouseCalls
    /\ DecodeInit
    /\ CallIdle

mouse_call ==
    /\ translate.pc = "call"
    /\ translate' = process_mouse_report(translate)
    /\ UNCHANGED translate_rest

SpecMouse == InitMouse /\ [][mouse_call]_vars

(* ---- process_interface_event / process_report, byte level -------------- *)
\* bytes of an input report
MaxPayload == 2
PayloadBytes == {0, 2, 5}
RECURSIVE PayloadsUpTo(_)
PayloadsUpTo(n) ==
    IF n = 0 THEN {<<>>}
    ELSE LET shorter == PayloadsUpTo(n - 1)
         IN  shorter \cup {p \o <<b>> : p \in shorter, b \in PayloadBytes}
Payloads == PayloadsUpTo(MaxPayload)

\* report maps a parsed descriptor leaves: one byte; two bytes (modifier
\* and reserved byte of a keyboard); one byte under Report ID 1
DecodeLayouts ==
    {[report_id |-> 0, fields |-> <<[bit_offset |-> 0, bit_size |-> 8]>>],
     [report_id |-> 0, fields |-> <<[bit_offset |-> 0, bit_size |-> 8],
                                    [bit_offset |-> 8, bit_size |-> 8]>>],
     [report_id |-> 1, fields |-> <<[bit_offset |-> 0, bit_size |-> 8]>>]}

decode_rest ==
    <<prog, env, rtos, ctl, hist, usbv, prsv, extract, translate, callv>>

\* process_device_event, lines 618-622: the descriptor of the connected
\* device is parsed into the map of the interface
decode_device_connected(layout) ==
    /\ decode_map' = layout
    /\ decode_first' = NoDecodeReport
    /\ UNCHANGED <<cur_if_evt_data, decode_report, decode_rest>>

\* hid_host_device_get_raw_input_report_data: the bytes of the report are
\* copied to the start of the buffer, the rest of the buffer stays
received(buffer, payload) ==
    [k \in 1..EVT_DATA_SIZE |->
        IF k <= Len(payload) THEN payload[k] ELSE buffer[k]]

\* line 645: the first byte of every report is taken as its report id
report_id_of(buffer, data_length) == IF data_length > 0 THEN buffer[1] ELSE 0
\* lines 518-521
process_report_rejects(length) == length = 0 \/ length > MAX_REPORT_LEN
\* lines 523-526: data++ for a report id other than 0
data_skip(report_id) == IF report_id # 0 THEN 1 ELSE 0

\* lines 642-647 and 516-552: HID_HOST_INTERFACE_EVENT_INPUT_REPORT
decode_input_report(payload) ==
    LET buffer == received(cur_if_evt_data, payload)
        data_length == Len(payload)
        report_id == report_id_of(buffer, data_length)
        skip == data_skip(report_id)
        data == SubSeq(buffer, 1 + skip, EVT_DATA_SIZE)
        got == [i \in 1..Len(decode_map.fields) |->
                   extract_field(data, decode_map.fields[i].bit_offset,
                                 decode_map.fields[i].bit_size)]
        built == [built |-> TRUE, report_id |-> report_id,
                  values |-> [i \in 1..Len(got) |-> got[i].value],
                  payload |-> payload, data_length |-> data_length,
                  reads |-> UNION {{skip + n : n \in got[i].reads} :
                                      i \in 1..Len(got)}]
    IN  /\ cur_if_evt_data' = buffer
        /\ IF process_report_rejects(data_length)
           THEN UNCHANGED <<decode_report, decode_first>>
           ELSE /\ decode_report' = built
                /\ decode_first' = IF decode_first.built THEN decode_first
                                   ELSE built
        /\ UNCHANGED <<decode_map, decode_rest>>

InitDecode ==
    /\ BridgeRunning
    /\ UsbInit
    /\ ParseIdle
    /\ FnIdle

NextDecode ==
    \/ \E layout \in DecodeLayouts : decode_device_connected(layout)
    \/ \E payload \in Payloads : decode_input_report(payload)

SpecDecode == InitDecode /\ [][NextDecode]_vars

(* ---- the public functions of hid_bridge.c, one call after the other ---- *)
\* consumer tasks that can exist before xTaskCreatePinnedToCore fails
MaxTasks == 3

\* the statics and objects a call reads and writes
CallState ==
    [initialized |-> s_hid_bridge_initialized,
     running |-> s_hid_bridge_running,
     active |-> s_ble_stack_active,
     enable_sleep |-> s_enable_sleep,
     timer |-> s_inactivity_timer,
     mutex |-> s_ble_stack_mutex,
     handle |-> s_hid_bridge_task_handle,
     tasks |-> task_count,
     holder |-> mutex_holder,
     timer_on |-> timer_active,
     left |-> timer_left,
     ble |-> ble_stack,
     usb |-> usb_host_up,
     connected |-> s_connected,
     device |-> g_device_connected]
Returns(st, ret) == [st |-> st, ret |-> ret]

\* lines 83-167, while the USB host library is not installed
hid_bridge_init_call(st, sleep_cfg, usb_ok, ble_ok, usb_deinit_ok) ==
    IF st.initialized THEN Returns(st, "ESP_OK")
    ELSE LET made == [st EXCEPT
                 !.enable_sleep = CASE sleep_cfg = "on" -> TRUE
                                    [] sleep_cfg = "off" -> FALSE
                                    [] OTHER -> st.enable_sleep,
                 !.mutex = TRUE, !.holder = "none", !.active = TRUE,
                 !.timer = TRUE, !.device = FALSE]
         IN  IF ~usb_ok
             THEN Returns([made EXCEPT !.timer_on = FALSE, !.left = 0],
                          "ESP_FAIL")
             ELSE IF ~ble_ok
             THEN Returns([made EXCEPT !.timer_on = FALSE, !.left = 0,
                                       !.ble = ble_hid_device_init(FALSE),
                                       !.usb = ~usb_deinit_ok], "ESP_FAIL")
             ELSE Returns([made EXCEPT !.initialized = TRUE,
                                       !.ble = ble_hid_device_init(TRUE),
                                       !.usb = TRUE, !.timer_on = TRUE,
                                       !.left = Timeout], "ESP_OK")

\* a hid_bridge_start that creates a task whenever it is called
hid_bridge_start_unguarded(st, task_created) ==
    IF ~st.initialized THEN Returns(st, "ESP_ERR_INVALID_STATE")
    ELSE IF ~task_created THEN Returns(st, "ESP_ERR_NO_MEM")
    ELSE Returns([st EXCEPT !.handle = TRUE, !.tasks = st.tasks + 1,
                            !.running = TRUE], "ESP_OK")
\* lines 225-246
hid_bridge_start_call(st, task_created) ==
    IF ~st.initialized THEN Returns(st, "ESP_ERR_INVALID_STATE")
    ELSE IF st.running THEN Returns(st, "ESP_OK")
    ELSE IF ~task_created THEN Returns(st, "ESP_ERR_NO_MEM")
    ELSE Returns([st EXCEPT !.handle = TRUE, !.tasks = st.tasks + 1,
                            !.running = TRUE], "ESP_OK")

\* lines 248-268
hid_bridge_stop_call(st) ==
    IF ~st.initialized THEN Returns(st, "ESP_ERR_INVALID_STATE")
    ELSE IF ~st.running THEN Returns(st, "ESP_OK")
    ELSE Returns([st EXCEPT
                     !.tasks = IF st.handle THEN st.tasks - 1 ELSE st.tasks,
                     !.handle = FALSE, !.running = FALSE], "ESP_OK")

\* lines 169-223; usb_res as in hid_bridge_deinit_tail
hid_bridge_deinit_call(st, ble_ok, usb_res) ==
    IF ~st.initialized THEN Returns(st, "ESP_OK")
    ELSE LET stopped == IF st.running THEN hid_bridge_stop_call(st).st ELSE st
             untimed == IF st.timer
                        THEN [stopped EXCEPT !.timer = FALSE,
                                             !.timer_on = FALSE, !.left = 0]
                        ELSE stopped
             taken == [untimed EXCEPT !.holder = "app"]
             ble_done == IF st.active
                         THEN [untimed EXCEPT
                                  !.active = ~ble_ok,
                                  !.ble = ble_hid_device_deinit(ble_ok)]
                         ELSE untimed
         IN  IF ~xSemaphoreTake(untimed.holder)
             THEN Returns(untimed, "ESP_FAIL")
             ELSE IF st.active /\ ~ble_ok THEN Returns(ble_done, "ESP_FAIL")
             ELSE IF usb_res = "hid_fail" THEN Returns(ble_done, "ESP_FAIL")
             ELSE IF usb_res = "host_fail"
             THEN Returns([ble_done EXCEPT !.usb = FALSE, !.device = FALSE],
                          "ESP_FAIL")
             ELSE Returns([ble_done EXCEPT !.usb = FALSE, !.device = FALSE,
                                           !.mutex = FALSE,
                                           !.initialized = FALSE], "ESP_OK")

\* lines 374-423, for a report of the kind with num_fields fields
hid_bridge_process_report_call(st, kind, num_fields, ble_ok) ==
    IF ~st.initialized THEN Returns(st, "ESP_ERR_INVALID_STATE")
    ELSE LET reset == IF st.timer /\ st.device /\ st.connected
                      THEN [st EXCEPT !.timer_on = TRUE, !.left = Timeout]
                      ELSE st
             resumed == [reset EXCEPT !.active = ble_ok,
                                      !.ble = ble_hid_device_init(ble_ok)]
             there == IF st.active THEN reset ELSE resumed
         IN  IF ~st.active /\ ~xSemaphoreTake(st.holder)
             THEN Returns(reset, "ESP_FAIL")
             ELSE IF ~st.active /\ ~ble_ok THEN Returns(resumed, "ESP_FAIL")
             ELSE IF ~there.connected THEN Returns(there, "ESP_OK")
             ELSE Returns(there,
                      process_report_return(kind, map_num_fields, num_fields,
                                            there.connected))

calls_rest ==
    <<s_hid_report_queue, is_connected, map_num_fields, ctl, hist, usbv, prsv,
      extract, translate, decv>>

\* a call returns: the statics and objects are as the function left them
api_call(fn, r) ==
    /\ s_hid_bridge_initialized' = r.st.initialized
    /\ s_hid_bridge_running' = r.st.running
    /\ s_ble_stack_active' = r.st.active
    /\ s_enable_sleep' = r.st.enable_sleep
    /\ s_inactivity_timer' = r.st.timer
    /\ s_ble_stack_mutex' = r.st.mutex
    /\ s_hid_bridge_task_handle' = r.st.handle
    /\ task_count' = r.st.tasks
    /\ mutex_holder' = r.st.holder
    /\ timer_active' = r.st.timer_on
    /\ timer_left' = r.st.left
    /\ ble_stack' = r.st.ble
    /\ usb_host_up' = r.st.usb
    /\ s_connected' = r.st.connected
    /\ g_device_connected' = r.st.device
    /\ api' = [fn |-> fn, ret |-> r.ret,
                initialized |-> s_hid_bridge_initialized,
                running |-> s_hid_bridge_running]
    /\ UNCHANGED calls_rest

\* hid_bridge_init returns, or (USB host library still installed) the chip
\* restarts and no call has returned yet
call_init(sleep_cfg, usb_ok, ble_ok, usb_deinit_ok) ==
    IF ~s_hid_bridge_initialized /\ usb_host_up
    THEN /\ Restart
         /\ s_hid_bridge_task_handle' = FALSE
         /\ task_count' = 0
         /\ api' = NoCall
         /\ UNCHANGED <<usbv, prsv, extract, translate, decv>>
    ELSE api_call("hid_bridge_init",
                  hid_bridge_init_call(CallState, sleep_cfg, usb_ok, ble_ok,
                                       usb_deinit_ok))
call_start(task_created) ==
    /\ task_count < MaxTasks
    /\ api_call("hid_bridge_start",
                hid_bridge_start_call(CallState, task_created))
call_stop == api_call("hid_bridge_stop", hid_bridge_stop_call(CallState))
call_deinit(ble_ok, usb_res) ==
    api_call("hid_bridge_deinit",
             hid_bridge_deinit_call(CallState, ble_ok, usb_res))
call_process_report(kind, num_fields, ble_ok) ==
    api_call("hid_bridge_process_report",
             hid_bridge_process_report_call(CallState, kind, num_fields,
                                            ble_ok))

NextCalls ==
    \/ \E sleep_cfg \in {"on", "off", "unset"},
          usb_ok, ble_ok, usb_deinit_ok \in BOOLEAN :
          call_init(sleep_cfg, usb_ok, ble_ok, usb_deinit_ok)
    \/ \E task_created \in BOOLEAN : call_start(task_created)
    \/ call_stop
    \/ \E ble_ok \in BOOLEAN, usb_res \in {"ok", "hid_fail", "host_fail"} :
          call_deinit(ble_ok, usb_res)
    \/ \E kind \in Kinds, num_fields \in NumFieldsSet, ble_ok \in BOOLEAN :
          call_process_report(kind, num_fields, ble_ok)
    \/ timer_expires
    \/ timer_take
    \/ timer_take_timeout
    \/ timer_check
    \/ \E ok \in BOOLEAN : timer_deinit(ok)
    \/ ble_connect_event
    \/ ble_disconnect_event
    \/ wifi_event
    \/ \E nf \in NumFieldsSet : usb_connect_event(nf)
    \/ usb_disconnect_event
    \/ tick

SpecCalls == Init /\ [][NextCalls]_vars

(* ---- properties --------------------------------------------------------- *)

\* C1 as stated: the state goes from Active to Suspended only in the timer
\* callback, and only when USB device connected, BLE peer connected, no WiFi
\* session and sleep enabled all hold
C1_original ==
    [][(s_ble_stack_active /\ ~s_ble_stack_active') =>
          (pc_t = "check" /\ pc_t' = "in_deinit" /\ g_device_connected
              /\ s_connected /\ ~is_connected /\ s_enable_sleep)]_vars

\* C1: the state goes from Active to Suspended in three places only: the
\* timer callback (and there only when, under the mutex, USB device connected,
\* BLE peer connected, no WiFi session and sleep enabled all hold),
\* hid_bridge_deinit, and the report path when it takes back a failed resume;
\* when one of the four conditions is false at the callback's check, the
\* callback does not call ble_hid_device_deinit
C1_amended ==
    /\ [][(s_ble_stack_active /\ ~s_ble_stack_active') =>
             \/ (pc_t = "check" /\ pc_t' = "in_deinit" /\ g_device_connected
                    /\ s_connected /\ ~is_connected /\ s_enable_sleep)
             \/ (pc_a = "deinit_locked" /\ pc_a' = "in_deinit")
             \/ (pc_c = "in_init" /\ pc_c' = "recv")]_vars
    /\ [][(pc_t = "check" /\ ~(g_device_connected /\ s_connected
                                  /\ ~is_connected /\ s_enable_sleep))
             => pc_t' # "in_deinit"]_vars

\* the timer callback has suspended the stack with all four conditions true
C1_witness ==
    /\ pc_t = "in_deinit"
    /\ ~s_ble_stack_active
    /\ g_device_connected /\ s_connected /\ ~is_connected /\ s_enable_sleep

\* C2: a report processed while Suspended enters ble_hid_device_init once,
\* from the locked re-check, which sets the state Active before the call;
\* when the init succeeds nothing has been sent for the report yet, and a
\* send happens only from the translate step that follows
C2_resume_before_send ==
    /\ [][(pc_c' = "in_init" /\ pc_c # "in_init") =>
             (pc_c = "locked" /\ rep = "resume" /\ rep' = "init"
                 /\ s_ble_stack_active')]_vars
    /\ [][(rep' = "resume" /\ rep # "resume") => pc_c = "entry"]_vars
    /\ [][(pc_c = "in_init" /\ pc_c' = "connected") =>
             (rep = "init" /\ rep' = "init_ok" /\ ble_stack' = "up")]_vars
    /\ [][(rep' \in {"sent", "resumed_sent"} /\ rep' # rep) =>
             (pc_c = "translate" /\ rep \in {"active", "resume", "init_ok"}
                 /\ (rep' = "resumed_sent") = (rep = "init_ok"))]_vars

\* a report that found the stack Suspended has been sent after the resume
C2_witness == rep = "resumed_sent" /\ pc_c = "recv"

\* C3 as stated: the timer callback never suspends less than one timeout
\* after the most recent report that reached hid_bridge_process_report
C3_original ==
    [][(s_ble_stack_active /\ ~s_ble_stack_active' /\ pc_t = "check")
          => since_report >= Timeout]_vars

\* C3: a report that reaches hid_bridge_process_report while the timer exists
\* and USB device and BLE peer are both connected restarts the timer with a
\* full period; the callback is entered only when a started timer has counted
\* its period down, and the count goes down one tick at a time
C3_amended ==
    /\ [][(pc_c = "entry" /\ pc_c' \in {"take", "connected"}
              /\ s_inactivity_timer /\ g_device_connected /\ s_connected)
             => (timer_active' /\ timer_left' = Timeout)]_vars
    /\ [][(pc_t = "idle" /\ pc_t' = "take") =>
             (timer_active /\ timer_left = 0)]_vars
    /\ [][(timer_active' /\ timer_left' < timer_left) =>
             timer_left' = timer_left - 1]_vars

\* a report has restarted the timer while the callback of the previous expiry
\* is still waiting for the mutex
C3_witness ==
    /\ pc_t = "take"
    /\ pc_c \in {"take", "connected"}
    /\ since_report = 0
    /\ g_device_connected /\ s_connected
    /\ timer_active /\ timer_left = Timeout

\* C4 as stated: after the timer fired without suspending because a condition
\* was false, the timer callback does not take the state from Active to
\* Suspended until a report has re-armed the timer
C4_original ==
    [][(s_ble_stack_active /\ ~s_ble_stack_active' /\ pc_t = "check")
          => ~inert]_vars

\* C4: the timer is one-shot: its expiry leaves it stopped, and a stopped
\* timer is started again only by a report (line 385), by the consumer task
\* starting (line 431) or by hid_bridge_init (line 162); until then the
\* callback does not run, whatever the four conditions become
C4_amended ==
    /\ [][(pc_t = "idle" /\ pc_t' = "take") =>
             (timer_active /\ ~timer_active')]_vars
    /\ [][(~timer_active /\ timer_active') =>
             (pc_c \in {"entry", "start"} \/ ~s_hid_bridge_initialized)]_vars
    /\ [][(pc_t = "idle" /\ ~timer_active) => pc_t' = "idle"]_vars

\* the timer is inert and all four conditions have become true
C4_witness ==
    /\ inert /\ ~timer_active /\ s_inactivity_timer
    /\ s_ble_stack_active
    /\ g_device_connected /\ s_connected /\ ~is_connected /\ s_enable_sleep

\* C5 as stated: the timer callback and the report path read and write
\* s_ble_stack_active only while holding s_ble_stack_mutex
C5_original ==
    /\ [][(pc_c = "entry" /\ pc_c' \in {"take", "connected"})
             => mutex_holder = "consumer"]_vars
    /\ [][(pc_c \in {"locked", "in_init"} /\ pc_c' \notin {pc_c, "none"})
             => mutex_holder = "consumer"]_vars
    /\ [][(pc_t \in {"check", "in_deinit"} /\ pc_t' # pc_t
              /\ UNCHANGED usb_host_up) => mutex_holder = "timer"]_vars

\* C6 as stated: the timer callback, the report path and hid_bridge_deinit
\* are inside ble_hid_device_init or ble_hid_device_deinit only while they
\* own the mutex, and no two of them are inside such a call at the same time
C6_original ==
    /\ pc_c = "in_init" => mutex_holder = "consumer"
    /\ pc_t = "in_deinit" => mutex_holder = "timer"
    /\ pc_a = "in_deinit" => mutex_holder = "app"
    /\ ~(pc_t = "in_deinit" /\ pc_c = "in_init")
    /\ ~(pc_t = "in_deinit" /\ pc_a = "in_deinit")
    /\ ~(pc_c = "in_init" /\ pc_a = "in_deinit")

\* C7: when ble_hid_device_deinit fails in the timer callback, the state is
\* Active and the mutex free when the callback returns
C7_failed_suspend_reverts ==
    [][(pc_t = "in_deinit" /\ pc_t' = "idle" /\ ble_stack' = "half_down")
          => (s_ble_stack_active' /\ mutex_holder' = "none")]_vars

\* a timer-driven suspend has failed: the stack is partly torn down, the
\* timer still exists (hid_bridge_deinit would have deleted it) and the state
\* is Active
C7_witness ==
    /\ ble_stack = "half_down" /\ s_inactivity_timer /\ pc_t = "idle"
    /\ pc_a = "idle" /\ s_ble_stack_active /\ mutex_holder = "none"

C9_take_timeout_skips ==
    /\ [][(rep' = "take_failed" /\ rep # "take_failed") =>
             (pc_c = "take" /\ pc_c' = "recv" /\ report' = NoReport
                 /\ UNCHANGED <<s_ble_stack_active, ble_stack,
                                mutex_holder>>)]_vars
    /\ [][(rep = "take_failed" /\ rep' # rep) => rep' = "none"]_vars
    /\ [][(pc_c = "take" /\ pc_c' \notin {"take", "none"}) =>
             \/ (pc_c' = "locked" /\ mutex_holder' = "consumer")
             \/ (pc_c' = "recv" /\ rep' = "take_failed")]_vars
    /\ [][(pc_t = "take" /\ pc_t' # "take" /\ UNCHANGED usb_host_up) =>
             \/ (pc_t' = "check" /\ mutex_holder' = "timer")
             \/ (pc_t' = "idle"
                    /\ UNCHANGED <<s_ble_stack_active, ble_stack,
                                   mutex_holder>>)]_vars

\* the report path has given up waiting for the mutex
C9_witness == rep = "take_failed" /\ pc_c = "recv" /\ report = NoReport

\* C10 as stated: no report is handed to the BLE stack while the state is
\* Suspended
C10_original ==
    [][(pc_c = "translate" /\ rep' \in {"sent", "resumed_sent"}) =>
          s_ble_stack_active]_vars

\* C11 as stated: the reports handed to the consumer are exactly the
\* enqueued reports, in order, each once, and no enqueued report is lost:
\* the queue changes only by a report appended at its tail or by its head
\* being handed to the consumer
C11_original ==
    [][(s_hid_bridge_initialized
           /\ s_hid_report_queue' # s_hid_report_queue) =>
          \/ /\ Len(s_hid_report_queue') = Len(s_hid_report_queue) + 1
             /\ SubSeq(s_hid_report_queue', 1, Len(s_hid_report_queue))
                   = s_hid_report_queue
          \/ /\ s_hid_report_queue # <<>>
             /\ s_hid_report_queue' = Tail(s_hid_report_queue)
             /\ report' = Head(s_hid_report_queue)]_vars

\* C11 amended: the consumer receives the enqueued reports in the order of
\* their enqueueing (a report is appended at the tail with a fresh, larger
\* id; the consumer is handed the head, which leaves the queue); a queued
\* report that never reaches the consumer was in the queue when the queue
\* was deleted (hid_bridge_deinit or a restart)
C11_amended ==
    /\ [][s_hid_report_queue' # s_hid_report_queue =>
          \/ /\ Len(s_hid_report_queue') = Len(s_hid_report_queue) + 1
             /\ SubSeq(s_hid_report_queue', 1, Len(s_hid_report_queue))
                   = s_hid_report_queue
             /\ s_hid_report_queue'[Len(s_hid_report_queue')].id = produced'
             /\ produced' = produced + 1
          \/ /\ s_hid_report_queue # <<>>
             /\ s_hid_report_queue' = Tail(s_hid_report_queue)
             /\ report' = Head(s_hid_report_queue)
          \/ /\ s_hid_report_queue' = <<>>
             /\ ~s_hid_bridge_initialized']_vars
    /\ [][(report' # report /\ report' # NoReport) =>
             (s_hid_report_queue # <<>> /\ report' = Head(s_hid_report_queue)
              /\ s_hid_report_queue' = Tail(s_hid_report_queue))]_vars

\* the first report is with the consumer while the second waits in the queue
C11_witness ==
    /\ report # NoReport /\ report.id = 1
    /\ Len(s_hid_report_queue) = 1 /\ s_hid_report_queue[1].id = 2

\* C17 as stated: hid_bridge_is_ble_paused is true exactly when the state is
\* Suspended with the BLE stack deinitialized and a USB device is connected
\* (looked at while hid_bridge_deinit is not under way)
C17_original ==
    pc_a = "idle" =>
       (hid_bridge_is_ble_paused <=>
          (~s_ble_stack_active /\ ble_stack = "down" /\ g_device_connected))

\* the field values a report refers to are the ones decoded from that report
OwnFields(r) == g_isr_field_values[r.fields] = r.id

\* C12: a process_report call that has reached xQueueSend returns whatever
\* the consumer does: when the queue stays full the wait ends after the
\* bounded time, the report is dropped and the event task is ready for the
\* next event
C12_producer_terminates ==
    /\ (prod_pc # "idle") ~> (prod_pc = "idle")
    /\ [][(prod_pc = "send" /\ prod_pc' = "idle"
              /\ Len(g_report_queue) = HID_QUEUE_SIZE) =>
             (/\ send_left = 0
              /\ dropped' = Append(dropped, usb_report.id)
              /\ UNCHANGED g_report_queue
              /\ hid_host_event_task_ready')]_vars

\* a report was dropped on the full queue and a later report is being decoded
C12_witness == dropped # <<>> /\ prod_pc = "extract"

\* C13 as stated: after HID_QUEUE_SIZE + 1 reports with nothing dequeued,
\* exactly the newest report was dropped and the queue holds the first
\* HID_QUEUE_SIZE reports, in order and unchanged
C13_original ==
    (n_reports = HID_QUEUE_SIZE + 1 /\ dequeued = 0 /\ prod_pc = "idle") =>
       /\ dropped = <<HID_QUEUE_SIZE + 1>>
       /\ Len(g_report_queue) = HID_QUEUE_SIZE
       /\ \A i \in 1..Len(g_report_queue) :
             g_report_queue[i].id = i /\ OwnFields(g_report_queue[i])

\* C14 as stated: a report that waits in the queue or is with the consumer
\* refers to field values decoded from its own payload
C14_original ==
    /\ \A i \in 1..Len(g_report_queue) : OwnFields(g_report_queue[i])
    /\ cons_pc = "process" => OwnFields(cons_report)

\* C15: parse_report_descriptor is never inside its rewrite of the map while
\* process_report is between reading num_fields and reading the fields, and
\* the map process_report reads the fields from has the num_fields it read
C15_parse_excludes_extract ==
    /\ ~(parse_pc # "idle" /\ prod_pc = "extract")
    /\ prod_pc = "extract" => usb_report.num_fields = map_num_fields

\* a report is decoded from the map a second parse has written while a
\* report decoded from the first one still waits in the queue
C15_witness ==
    /\ prod_pc = "extract" /\ g_report_queue # <<>>
    /\ g_report_queue[1].num_fields # usb_report.num_fields

\* C16 as stated: the disconnect event clears the report map
C16_original ==
    [][(g_device_connected /\ ~g_device_connected') =>
          (map_num_fields' = 0 /\ map_total_bits' = 0)]_vars

\* sum of bit_size over a sequence of fields
RECURSIVE SumBitSize(_)
SumBitSize(fs) ==
    IF fs = <<>> THEN 0 ELSE fs[1].bit_size + SumBitSize(Tail(fs))

\* C18: after a parse, in every report of the map each field starts where
\* the previous one ends (the first at bit 0, so no two fields overlap), and
\* the sum of bit_size over the report's fields is the stored total_bits and
\* is the sum of report_size * report_count over the Input/Output items the
\* descriptor has for that report id.
C18_original ==
    parse_phase = "parsed" =>
        \A j \in 1..parser.report_map.num_reports :
            LET r == parser.report_map.reports[j]
                fs == SubSeq(r.fields, 1, r.num_fields)
            IN  /\ \A k \in 1..Len(fs) :
                       fs[k].bit_offset = SumBitSize(SubSeq(fs, 1, k - 1))
                /\ SumBitSize(fs) = r.total_bits
                /\ SumBitSize(fs) =
                       parser.declared[parser.report_map.report_ids[j]]

\* C19: total_bits of every report the parser builds is at most 512, the
\* bits of the longest report (64 bytes), whatever the items.
C19_original ==
    parse_phase \in {"loop", "parsed"} =>
        \A j \in 1..parser.report_map.num_reports :
            parser.report_map.reports[j].total_bits <= 8 * MAX_REPORT_LEN

\* C20: a further parse of the first descriptor into the same map, directly
\* after the first or after a parse of another descriptor, leaves the map
\* the first parse left: same report ids, fields and total_bits.
C20_original ==
    parse_phase \in {"twice", "again"} =>
        MapView(parser.report_map) = first_map
\* C21: the scenario A keyboard descriptor parses to one report, id 0, of
\* exactly 9 fields: 8 variable one-bit fields at bit offsets 0..7 with the
\* usages 0xE0..0xE7 of the keyboard page, then one constant 8-bit field at
\* bit offset 8; total_bits is 16.
C21_scenario_a ==
    (parse_phase = "parsed" /\ first_desc \in Scenarios) =>
        /\ parser.report_map.num_reports = 1
        /\ parser.report_map.report_ids[1] = 0
        /\ LET r == parser.report_map.reports[1]
           IN  /\ r.num_fields = 9
               /\ r.total_bits = 16
               /\ \A k \in 1..8 :
                      /\ r.fields[k].bit_offset = k - 1
                      /\ r.fields[k].bit_size = 1
                      /\ r.fields[k].usage_page = 7
                      /\ r.fields[k].usage = 224 + k - 1
                      /\ r.fields[k].variable
                      /\ ~r.fields[k].constant
               /\ r.fields[9].constant
               /\ r.fields[9].bit_offset = 8
               /\ r.fields[9].bit_size = 8
C21_witness ==
    /\ parse_phase = "parsed"
    /\ first_desc = ScenarioA
    /\ parser.i = Len(ScenarioA)
    /\ parser.report_map.reports[1].num_fields = 9
\* C22: for every bit_size in {1, 2, 8, 16, 32}, every bit_offset and every
\* signed value of bit_size bits, extract_field_value on a payload holding
\* the value's two's complement pattern at that offset returns the value.
C22_original ==
    (extract.pc = "returned" /\ ~extract.raw) =>
        extract.value = extract.written

\* C23: a one-bit field extracts to -1 when its bit is set and to 0 when it
\* is clear; of the fields at bit offsets 0..7 of the payload byte 0x05,
\* fields 0 and 2 decode to -1 and the others to 0.
C23_original ==
    (extract.pc = "returned" /\ extract.data = ScenarioB
        /\ extract.raw /\ extract.bit_size = 1) =>
        extract.value = IF extract.bit_offset \in {0, 2} THEN -1 ELSE 0
\* C25: a dequeued report whose num_fields is not the field count the
\* report map holds now is discarded: the step that translates it sends
\* nothing to the BLE peer, and hid_bridge_process_report returns ESP_OK
\* for it, whether it is a mouse or a keyboard report.
C25_mismatch_discarded ==
    [][(/\ pc_c = "translate"
        /\ pc_c' = "recv"
        /\ usb_hid_host_get_num_fields # report.num_fields)
       => (/\ rep' \notin {"sent", "resumed_sent"}
           /\ \A kind \in {"mouse", "keyboard"} :
                  process_report_return(kind, usb_hid_host_get_num_fields,
                                        report.num_fields,
                                        ble_hid_device_send) = "ESP_OK")]_vars
C25_witness ==
    /\ pc_c = "translate"
    /\ report.id # 0
    /\ usb_hid_host_get_num_fields # report.num_fields
    /\ ble_hid_device_send
\* the usages of the pressed keys of a report, in field order
RECURSIVE PressedKeys(_, _)
PressedKeys(fields, i) ==
    IF i > Len(fields) THEN <<>>
    ELSE LET f == fields[i]
             key == f.usage_page = HID_USAGE_KEYPAD /\ f.value # 0
                    /\ ~(f.usage >= 224 /\ f.usage <= 231)
         IN  (IF key THEN <<f.usage>> ELSE <<>>) \o PressedKeys(fields, i + 1)

\* C24: in the keyboard report sent, modifier bit (usage - 0xE0) is set for
\* each non-zero keyboard-page field with usage in 0xE0..0xE7, and the six
\* keycode slots hold the usages of the first six other non-zero
\* keyboard-page fields in field order, the unused slots being 0.
C24_original ==
    (translate.pc = "returned" /\ translate.sent) =>
        LET keys == PressedKeys(translate.fields, 1)
        IN  /\ translate.buffer.modifier =
                   SumOfBits(modifier_bits(translate.fields, 1), 7)
            /\ \A k \in 1..6 :
                   translate.buffer.keycode[k] =
                       IF k <= Len(keys) THEN keys[k] ELSE 0
\* C26: the parse result holds exactly one report per distinct report id
\* under which the descriptor has Input/Output items, the first field of
\* each at bit offset 0; a descriptor without a Report ID item yields
\* exactly one report, with id 0, and a descriptor that uses report ids
\* yields no further report for id 0.
C26_original ==
    parse_phase = "parsed" =>
        LET map == parser.report_map
            got == {map.report_ids[j] : j \in 1..map.num_reports}
        IN  /\ Cardinality(got) = map.num_reports
            /\ ~parser.has_report_id => (map.num_reports = 1 /\ got = {0})
            /\ (parser.has_report_id /\ parser.input_ids # {}) =>
                   got = parser.input_ids
            /\ \A j \in 1..map.num_reports :
                   map.reports[j].num_fields > 0 =>
                       map.reports[j].fields[1].bit_offset = 0
\* C27: the BLE stack mutex is never held forever: its owner is always a
\* context inside the section it took the mutex for (the timer callback,
\* hid_bridge_process_report or hid_bridge_deinit), which gives it back on
\* every exit; it is never owned by a consumer task that hid_bridge_stop
\* deleted, so that a later taker can still acquire it.
C27_original ==
    /\ mutex_holder # "dead"
    /\ mutex_holder = "consumer" => pc_c \in {"locked", "in_init"}
    /\ mutex_holder = "timer" => pc_t \in {"check", "in_deinit"}
    /\ mutex_holder = "app" => pc_a \in {"deinit_locked", "in_deinit"}
\* a step in which a call of ble_hid_device_init returns: in
\* hid_bridge_process_report, or in hid_bridge_init (which then sets the
\* bridge initialised, or leaves the stack half initialised)
StackInitReturns ==
    \/ pc_c = "in_init" /\ rep' \in {"init_ok", "init_failed"}
    \/ ~s_hid_bridge_initialized /\ s_hid_bridge_initialized'
    \/ /\ ~s_hid_bridge_initialized /\ pc_a = "idle" /\ ~usb_host_up
       /\ ble_stack # "half_up" /\ ble_stack' = "half_up"
\* a step in which a call of ble_hid_device_deinit returns: in
\* hid_bridge_deinit or in the timer callback
StackDeinitReturns ==
    \/ pc_a = "in_deinit" /\ pc_a' = "idle"
    \/ pc_t = "in_deinit" /\ pc_t' = "idle" /\ usb_host_up' = usb_host_up

\* C28: successful ble_hid_device_init and ble_hid_device_deinit calls
\* alternate strictly, starting with the init of hid_bridge_init: an init
\* succeeds only on a stack that is down (or that a failed init left half
\* up), a deinit only on a stack that is up (or that a failed deinit left
\* half down).
C28_original ==
    [][/\ (StackInitReturns /\ ble_stack' = "up") =>
              ble_stack \in {"down", "half_up"}
       /\ (StackDeinitReturns /\ ble_stack' = "down") =>
              ble_stack \in {"up", "half_down"}]_vars
\* the bytes the fields of a map cover
BytesOfMap(map) ==
    IF map.fields = <<>> THEN 0
    ELSE LET last == map.fields[Len(map.fields)]
         IN  (last.bit_offset + last.bit_size + 7) \div 8

\* C29: for a device whose descriptor declares no Report ID, every input
\* report is decoded from payload byte 0 with report_id 0, whatever the
\* first payload byte is.
C29_original ==
    (/\ decode_report.built
     /\ decode_map.report_id = 0
     /\ decode_map.fields # <<>>
     /\ decode_report.data_length >= BytesOfMap(decode_map)) =>
        /\ decode_report.report_id = 0
        /\ decode_report.values =
               [i \in 1..Len(decode_map.fields) |->
                   extract_field_value(decode_report.payload,
                                       decode_map.fields[i].bit_offset,
                                       decode_map.fields[i].bit_size)]

\* C30: the extraction reads no buffer byte at or beyond the received
\* length, and two reports with the same payload decode to the same values
\* under the same map, whatever earlier reports left in the buffer.
C30_original ==
    decode_report.built =>
        /\ \A n \in decode_report.reads : n < decode_report.data_length
        /\ decode_report.payload = decode_first.payload =>
               decode_report.values = decode_first.values
(* ---- the Input/Output item of one step of the parse ------------------- *)
\* the step of the loop that is about to run handles an Input or Output
\* item, with these flags in its data
InputStep ==
    /\ parse_phase = "loop"
    /\ parser.i < Len(parser.desc)
    /\ (parser.desc[parser.i + 1] \div 4) % 4 = 0
    /\ (parser.desc[parser.i + 1] \div 16) % 16 \in {8, 9}
StepConstant == item_data(parser) % 2 = 1
StepVariable == (item_data(parser) \div 2) % 2 = 1
\* the report the item's fields belong to, as it is before the item; the
\* item has all its data bytes and is not left out for a full table; it
\* finds room for report_count fields
StepReport == find_report(parser).map.reports[find_report(parser).index]
StepProcessed ==
    /\ item_length(parser) = parser.desc[parser.i + 1] % 4
    /\ ~field_table_full(parser.report_map.reports[parser.current_report])
    /\ ~find_report(parser).skip
StepHasRoom ==
    /\ StepProcessed
    /\ StepReport.num_fields + parser.report_count <= MAX_REPORT_FIELDS
\* the fields the step added to that report
StepEmitted ==
    LET after == parser'.report_map.reports[find_report(parser).index]
    IN  SubSeq(after.fields, StepReport.num_fields + 1, after.num_fields)
Max2(a, b) == IF a > b THEN a ELSE b

\* C31: a non-constant variable Input/Output item with an active usage
\* range emits min(report_count, usage_maximum - usage_minimum + 1) fields
\* (none for an empty range), each report_size bits wide, the j-th with
\* usage usage_minimum + j, at consecutive bit offsets.
C31_original ==
    [][(InputStep /\ StepHasRoom /\ ~StepConstant /\ StepVariable
            /\ parser.has_usage_range /\ parser' = parse_item(parser)) =>
        LET n == Max2(0, Min2(parser.report_count,
                              parser.usage_maximum - parser.usage_minimum + 1))
        IN  /\ Len(StepEmitted) = n
            /\ \A j \in 1..n :
                  /\ StepEmitted[j].bit_size = parser.report_size
                  /\ StepEmitted[j].usage = parser.usage_minimum + j - 1
                  /\ StepEmitted[j].bit_offset =
                         StepReport.total_bits + (j - 1) * parser.report_size]_vars

\* C32: a non-constant Input/Output item without a usage range emits
\* report_count fields of report_size bits; the j-th field has the j-th
\* usage declared since the previous Main item, or the last one declared
\* when there are fewer than j.
C32_original ==
    [][(InputStep /\ StepHasRoom /\ ~StepConstant /\ ~parser.has_usage_range
            /\ parser' = parse_item(parser)) =>
        LET u == parser.local_usages
        IN  /\ Len(StepEmitted) = parser.report_count
            /\ \A j \in 1..parser.report_count :
                  /\ StepEmitted[j].bit_size = parser.report_size
                  /\ u # <<>> =>
                        StepEmitted[j].usage = u[Min2(j, Len(u))]]_vars

C34_original ==
    [][(InputStep /\ item_length(parser) = parser.desc[parser.i + 1] % 4
            /\ parser' = parse_item(parser)) =>
        /\ \A j \in 1..parser'.report_map.num_reports :
              parser'.report_map.reports[j].usage_stack = <<>>
        /\ ~parser'.has_usage_range
        /\ parser'.usage_minimum = 0
        /\ parser'.usage_maximum = 0]_vars

\* C35: an item whose header has size-class 3 consumes 4 data bytes, and the
\* next item header is read from the byte after them.
C35_original ==
    [][(/\ parse_phase = "loop"
        /\ parser.i + 5 <= Len(parser.desc)
        /\ parser.desc[parser.i + 1] % 4 = 3
        /\ parser' = parse_item(parser)) =>
            parser'.i = parser.i + 5]_vars

\* the locals of the parser
LocalsOf(p) ==
    <<p.current_usage_page, p.report_size, p.report_count, p.logical_min,
      p.logical_max, p.current_usage, p.usage_minimum, p.usage_maximum,
      p.has_usage_range, p.current_report_id, p.is_relative>>

\* C36: when the last item of a descriptor declares more data bytes than
\* remain, the parse ends as the parse of the descriptor without that item:
\* the same map, the same locals.
C36_original ==
    (parse_phase = "parsed" /\ first_desc \in TruncatedDescriptors) =>
        LET whole == parse_report_descriptor(
                         SubSeq(first_desc, 1, Len(first_desc) - 1), ZeroMap)
        IN  /\ first_map = MapView(whole.report_map)
            /\ LocalsOf(parser) = LocalsOf(whole)

\* C37: during and after a parse no table of the map is used beyond its
\* capacity: at most MAX_REPORT_FIELDS fields and stacked usages per report,
\* a collection depth of 0 to MAX_COLLECTION_DEPTH, at most
\* MAX_REPORTS_PER_INTERFACE reports.
C37_tables_bounded ==
    parse_phase # "call" =>
        LET m == parser.report_map
        IN  /\ m.num_reports <= MAX_REPORTS_PER_INTERFACE
            /\ Len(m.reports) <= MAX_REPORTS_PER_INTERFACE
            /\ Len(m.report_ids) <= MAX_REPORTS_PER_INTERFACE
            /\ m.collection_depth \in 0..MAX_COLLECTION_DEPTH
            /\ \A j \in 1..Len(m.reports) :
                  /\ m.reports[j].num_fields <= MAX_REPORT_FIELDS
                  /\ Len(m.reports[j].fields) <= MAX_REPORT_FIELDS
                  /\ Len(m.reports[j].usage_stack) <= MAX_REPORT_FIELDS
\* every table is full after the descriptor with 9 collections, 8 report
\* ids, 65 units and 49 usages
C37_witness ==
    /\ parse_phase = "parsed"
    /\ first_desc = ScenarioFull
    /\ parser.report_map.collection_depth = MAX_COLLECTION_DEPTH
    /\ parser.report_map.num_reports = MAX_REPORTS_PER_INTERFACE
    /\ parser.current_report = MAX_REPORTS_PER_INTERFACE
    /\ parser.report_map.reports[parser.current_report].num_fields
           = MAX_REPORT_FIELDS
    /\ Len(parser.report_map.reports[parser.current_report].usage_stack)
           = MAX_REPORT_FIELDS

\* the value of the field of a Generic-Desktop usage, 0 without the field
MouseValue(fields, usage) ==
    LET at == {i \in 1..Len(fields) :
                  /\ fields[i].usage_page = HID_USAGE_PAGE_GENERIC_DESKTOP
                  /\ fields[i].usage = usage}
    IN  IF at = {} THEN 0 ELSE fields[CHOOSE i \in at : TRUE].value

\* C38: the mouse report sent has the decoded values of the X, Y and Wheel
\* fields (0 without the field), and for the buttons 1 to 5 bit (usage - 1)
\* is set exactly when a Button-page field of that usage is non-zero.
C38_original ==
    (translate.pc = "returned" /\ translate.sent) =>
        /\ translate.mouse.x = MouseValue(translate.fields, HID_USAGE_X)
        /\ translate.mouse.y = MouseValue(translate.fields, HID_USAGE_Y)
        /\ translate.mouse.wheel = MouseValue(translate.fields, HID_USAGE_WHEEL)
        /\ \A b \in 1..5 :
              (b - 1) \in translate.mouse.buttons <=>
                  \E i \in 1..Len(translate.fields) :
                      /\ translate.fields[i].usage_page = HID_USAGE_PAGE_BUTTONS
                      /\ translate.fields[i].usage = b
                      /\ translate.fields[i].value # 0

(* ---- hid_bridge_deinit and the calls that have nothing to do ---- *)
\* the step is a call of the function, whatever the platform answers
Called(fn) ==
    /\ api'.fn = fn
    /\ CASE fn = "hid_bridge_init" ->
                \E sleep_cfg \in {"on", "off", "unset"},
                   usb_ok, ble_ok, usb_deinit_ok \in BOOLEAN :
                   call_init(sleep_cfg, usb_ok, ble_ok, usb_deinit_ok)
         [] fn = "hid_bridge_start" ->
                \E task_created \in BOOLEAN : call_start(task_created)
         [] fn = "hid_bridge_stop" -> call_stop
         [] fn = "hid_bridge_deinit" ->
                \E ble_ok \in BOOLEAN, usb_res \in {"ok", "hid_fail", "host_fail"} :
                   call_deinit(ble_ok, usb_res)
         [] fn = "hid_bridge_process_report" ->
                \E kind \in Kinds, num_fields \in NumFieldsSet, ble_ok \in BOOLEAN :
                   call_process_report(kind, num_fields, ble_ok)
\* the step changed nothing but the record of the call
NothingChanged ==
    UNCHANGED <<prog, env, rtos, ctl, hist, s_hid_bridge_task_handle,
                task_count>>

\* C39: a hid_bridge_deinit that returns an error leaves the bridge as it
\* was: initialized, the consumer task running if it was, the inactivity
\* timer present if it was, the state of the BLE stack and of the USB host
\* unchanged.
C39_original ==
    [][(Called("hid_bridge_deinit") /\ api'.ret # "ESP_OK") =>
           /\ s_hid_bridge_initialized'
           /\ s_hid_bridge_running' = s_hid_bridge_running
           /\ task_count' = task_count
           /\ s_inactivity_timer' = s_inactivity_timer
           /\ s_ble_stack_active' = s_ble_stack_active
           /\ ble_stack' = ble_stack
           /\ usb_host_up' = usb_host_up]_vars

\* C40: start, stop and process_report on a bridge that is not initialized
\* return ESP_ERR_INVALID_STATE and change nothing; init on an initialized
\* bridge, start on a running bridge and stop on a stopped bridge return
\* ESP_OK and change nothing; there is never more than one consumer task.
C40_calls_without_effect ==
    /\ [](task_count <= 1)
    /\ [][/\ (/\ ~s_hid_bridge_initialized
               /\ \/ Called("hid_bridge_start")
                  \/ Called("hid_bridge_stop")
                  \/ Called("hid_bridge_process_report")) =>
                  api'.ret = "ESP_ERR_INVALID_STATE" /\ NothingChanged
          /\ (/\ s_hid_bridge_initialized
               /\ \/ Called("hid_bridge_init")
                  \/ s_hid_bridge_running /\ Called("hid_bridge_start")
                  \/ ~s_hid_bridge_running /\ Called("hid_bridge_stop")) =>
                  api'.ret = "ESP_OK" /\ NothingChanged]_vars
\* hid_bridge_start has returned ESP_OK on a running bridge and the one task
\* is still the only one
C40_witness ==
    /\ api.fn = "hid_bridge_start"
    /\ api.ret = "ESP_OK"
    /\ api.initialized /\ api.running
    /\ s_hid_bridge_running
    /\ task_count = 1
====
